---- MODULE Spec2Model ----
(***************************************************************************)
(* Batch translation orchestrator (App component), its token guard,        *)
(* language detector, quality pass, snapshot store and TranslationHub.     *)
(*                                                                         *)
(* Text is modelled as a sequence of segments.  Each segment stands for a  *)
(* run of characters of one class, and every regular expression of the     *)
(* source is evaluated on the classes of the segments:                     *)
(*   "ZH"    CJK text (the source language), no glossary keyword           *)
(*   "ZHG"   CJK text that is a keyword of the glossary                    *)
(*   "EN"    English words, well spaced                                    *)
(*   "ENsp"  English words with a spacing artifact (space before comma)    *)
(*   "ENlf"  English long-form phrase rewritten by adjustLongFormStatus    *)
(*   "ENvar" English wording that normalizeTerminology rewrites            *)
(*   "RU"    Cyrillic text                                                 *)
(*   "TOK"   inline ASCII literal inside foreign text (Login)              *)
(*   "CODE"  UUID or alphanumeric-hyphen code (AB-1234)                    *)
(*   "SYM"   symbols only (a neutral token)                                *)
(*   "TKNn"  placeholder __TKN_n__      "IDn"  placeholder __ID_n__        *)
(* A cell that is not a string (number, boolean) is NumCell.               *)
(* Rows are records key -> cell; a key the backend left out of a response  *)
(* row is absent from the record's DOMAIN (undefined in the source).       *)
(* Row indexes are 1-based here and 0-based in the source.                 *)
(***************************************************************************)
EXTENDS Integers, Sequences, FiniteSets, TLC

VARIABLES
    data,               \* useState data: the ingested RecordSet
    targetLang,         \* useState targetLang
    translationMode,    \* useState translationMode
    enginePreference,   \* useState enginePreference
    processedData,      \* useState processedData
    translatedFlags,    \* useState translatedFlags
    missingRowIndices,  \* useState missingRowIndices
    translationStatus,  \* useState translationStatus
    activeStage,        \* useState activeStage
    processingState,    \* useState processingState: [status, progress, currentBatch]
    translationIssues,  \* useState translationIssues
    qualityReport,      \* useState qualityReport
    pauseRequested,     \* pauseRequestedRef.current
    store,              \* localStorage: the entry of (fileId, targetLang); all of it in SpecStore
    cache,              \* TranslationHub.cache
    lastEngine,         \* TranslationHub.lastEngine
    hub,                \* TranslationHub as constructed: proxy, openRouter, hasGeminiKey
    call,               \* the translateBatch call in flight and the last call's result
    pc,                 \* position of the asynchronous handler in flight
    kind,               \* which handler is in flight
    cl,                 \* state captured by the handler's closure at the click
    w,                  \* the handler's local variables
    backend,            \* behaviour of the remote service (deterministic runs)
    guarded,            \* a text on its way through the token guard and back
    strings,            \* stringStatus, stringOutputs and the hub calls of the string translator
    hist                \* observations of the current handler (history)

vars == <<data, targetLang, translationMode, enginePreference, processedData,
          translatedFlags, missingRowIndices, translationStatus, activeStage,
          processingState, translationIssues, qualityReport, pauseRequested,
          store, cache, lastEngine, hub, call, pc, kind, cl, w, backend, guarded,
          strings, hist>>

-----------------------------------------------------------------------------
(* Program constants *)

BATCH_SIZE == 5
RETRY_BATCH_SIZE == 5

(* Bounds of the model *)

NumRows == 6        \* rows of the ingested document
MaxOps == 2         \* handlers started after the ingestion in one behaviour

-----------------------------------------------------------------------------
(* Cells and segments *)

NumCell == <<"#NUM">>
EmptyText == <<>>
Null == <<>>

TKN == <<"TKN0", "TKN1", "TKN2", "TKN3">>
IDN == <<"ID0", "ID1", "ID2", "ID3">>
\* __FMT_n__ for n = 0..11
FMTN == <<"FMT0", "FMT1", "FMT2", "FMT3", "FMT4", "FMT5", "FMT6", "FMT7", "FMT8", "FMT9",
          "FMT10", "FMT11">>

IsString(v) == v # NumCell

Has(v, segs) == \E i \in 1..Len(v) : v[i] \in segs

MapSegs(v, Op(_)) == [i \in 1..Len(v) |-> Op(v[i])]

CjkSegs == {"ZH", "ZHG"}
CyrillicSegs == {"RU"}
EnglishSegs == {"EN", "ENsp", "ENlf", "ENvar"}
\* segments matched (whole) by ASCII_TOKEN_REGEX: a letter followed by token characters
\* "TOKd" is a token in which a digit follows a letter (CD4); "TOKsplit" is
\* that token with a space between the two (CD 4)
AsciiTokenSegs == EnglishSegs \cup {"TOK", "CODE", "TOKd", "TOKsplit"}
PlaceholderSegs == {TKN[i] : i \in 1..Len(TKN)} \cup {IDN[i] : i \in 1..Len(IDN)}
                       \cup {FMTN[i] : i \in 1..Len(FMTN)}
LatinSegs == AsciiTokenSegs \cup PlaceholderSegs

containsChinese(text) == Has(text, CjkSegs)

Min(a, b) == IF a < b THEN a ELSE b

Max(a, b) == IF a > b THEN a ELSE b

\* number of elements of S below i: the value of a running counter at position i
RankIn(S, i) == Cardinality({j \in S : j < i})

\* a PlaceholderMap with keys D; the source returns null instead of an empty map
PlaceholderMap(D, Val(_)) == IF D = {} THEN Null ELSE [ph \in D |-> Val(ph)]

-----------------------------------------------------------------------------
(* utils/docx.ts and utils/translationTokens.ts: the token guard *)

\* the number n of a placeholder __XXX_n__
PlaceholderNumber(ph) ==
    IF \E i \in 1..Len(FMTN) : FMTN[i] = ph THEN (CHOOSE i \in 1..Len(FMTN) : FMTN[i] = ph) - 1
    ELSE IF \E i \in 1..Len(TKN) : TKN[i] = ph THEN (CHOOSE i \in 1..Len(TKN) : TKN[i] = ph) - 1
    ELSE (CHOOSE i \in 1..Len(IDN) : IDN[i] = ph) - 1

\* Object.entries gives the keys of a placeholder map in the order of their
\* insertion: __FMT_n__ before __TKN_n__ before __ID_n__, each by its number
KeyRank(ph) ==
    IF \E i \in 1..Len(FMTN) : FMTN[i] = ph THEN PlaceholderNumber(ph)
    ELSE IF \E i \in 1..Len(TKN) : TKN[i] = ph THEN 100 + PlaceholderNumber(ph)
    ELSE 200 + PlaceholderNumber(ph)

OrderedKeys(D) ==
    [j \in 1..Cardinality(D) |->
        CHOOSE ph \in D : Cardinality({q \in D : KeyRank(q) < KeyRank(ph)}) = j - 1]

\* ASCII_TOKEN_REGEX also matches inside a placeholder that the text already
\* holds (from its first letter on: TKN_1__ of __TKN_1__); the two underscores
\* in front of the match stay in the text and are written as part of the new
\* placeholder's segment, so that the match is restored to the old placeholder
guardInlineTokens(text) ==
    IF text = EmptyText THEN [sanitized |-> EmptyText, placeholders |-> Null]
    ELSE IF ~containsChinese(text) THEN [sanitized |-> text, placeholders |-> Null]
    ELSE LET P == {i \in 1..Len(text) : text[i] \in LatinSegs}
             name(i) == TKN[RankIn(P, i) + 1]
         IN  IF P = {} THEN [sanitized |-> text, placeholders |-> Null]
             ELSE [sanitized |-> [i \in 1..Len(text) |->
                                    IF i \in P THEN name(i) ELSE text[i]],
                   placeholders |-> PlaceholderMap({name(i) : i \in P},
                        LAMBDA ph : text[CHOOSE i \in P : name(i) = ph])]

\* lines 84-87: one global replace per key, each on the result of the one before
RECURSIVE replaceKeys(_, _, _, _)
replaceKeys(restored, placeholders, keys, j) ==
    IF j > Len(keys) THEN restored
    ELSE replaceKeys([i \in 1..Len(restored) |->
                        IF restored[i] = keys[j] THEN placeholders[keys[j]] ELSE restored[i]],
                     placeholders, keys, j + 1)

restoreInlineTokens(text, placeholders) ==
    IF text = EmptyText \/ DOMAIN placeholders = {} THEN text
    ELSE replaceKeys(text, placeholders, OrderedKeys(DOMAIN placeholders), 1)

\* UUID_TEST / ALPHANUM_HYPHEN_TEST are unanchored: one code anywhere in the value
isLikelyIdentifier(value) == Has(value, {"CODE"})

\* lines 20-41: the codes left in base.sanitized become __ID_n__ placeholders
replaceTokens(base) ==
    LET counter == Cardinality(DOMAIN base.placeholders)
        P == {i \in 1..Len(base.sanitized) : base.sanitized[i] = "CODE"}
        name(i) == IDN[counter + RankIn(P, i) + 1]
        keys == DOMAIN base.placeholders \cup {name(i) : i \in P}
    IN  [sanitized |-> [i \in 1..Len(base.sanitized) |->
                          IF i \in P THEN name(i) ELSE base.sanitized[i]],
         placeholders |-> PlaceholderMap(keys,
             LAMBDA ph : IF ph \in DOMAIN base.placeholders
                         THEN base.placeholders[ph] ELSE "CODE")]

guardTranslationTokens(text) ==
    IF text = EmptyText THEN [sanitized |-> EmptyText, placeholders |-> Null]
    ELSE replaceTokens(guardInlineTokens(text))

restoreTranslationTokens(text, placeholders) == restoreInlineTokens(text, placeholders)

\* PLACEHOLDER_REGEX of utils/quality.ts
hasPlaceholder(text) == Has(text, PlaceholderSegs)

-----------------------------------------------------------------------------
(* utils/stringResources.ts: the guard of the string-resource translator.   *)
(* "PCT" is a format specifier (%s, %1$d, {0}); "JUNK" is what is left of a *)
(* placeholder whose front was taken for another one (0__ of __FMT_10__).   *)

guardFormatTokens(text) ==
    IF text = EmptyText THEN [sanitized |-> EmptyText, placeholders |-> Null]
    ELSE LET P == {i \in 1..Len(text) : text[i] = "PCT"}
             name(i) == FMTN[RankIn(P, i) + 1]
         IN  IF P = {} THEN [sanitized |-> text, placeholders |-> Null]
             ELSE [sanitized |-> [i \in 1..Len(text) |->
                                    IF i \in P THEN name(i) ELSE text[i]],
                   placeholders |-> PlaceholderMap({name(i) : i \in P},
                        LAMBDA ph : "PCT")]

\* { ...(formatPlaceholders || {}), ...(inlinePlaceholders || {}) }
mergePlaceholders(formatPlaceholders, inlinePlaceholders) ==
    [ph \in DOMAIN formatPlaceholders \cup DOMAIN inlinePlaceholders |->
        IF ph \in DOMAIN inlinePlaceholders THEN inlinePlaceholders[ph]
        ELSE formatPlaceholders[ph]]

guardedResource(formatPlaceholders, inline) ==
    [sanitized |-> inline.sanitized,
     placeholders |-> mergePlaceholders(formatPlaceholders, inline.placeholders)]

guardStringResourceTokens(text) ==
    guardedResource(guardFormatTokens(text).placeholders,
                    guardInlineTokens(guardFormatTokens(text).sanitized))

\* new RegExp(`_{0,2}${core}_{0,2}`) also matches the front of a placeholder of
\* the same class whose number starts with the digits of the key's number
matchesFront(key, seg) ==
    /\ seg \in PlaceholderSegs
    /\ seg # key
    /\ KeyRank(seg) \div 100 = KeyRank(key) \div 100
    /\ PlaceholderNumber(seg) >= 10
    /\ PlaceholderNumber(seg) \div 10 = PlaceholderNumber(key)

\* lines 80-83 for one key: every match is replaced by the key
RECURSIVE normalizeKey(_, _, _)
normalizeKey(text, key, i) ==
    IF i > Len(text) THEN <<>>
    ELSE (IF matchesFront(key, text[i]) THEN <<key, "JUNK">> ELSE <<text[i]>>)
         \o normalizeKey(text, key, i + 1)

RECURSIVE normalizeKeys(_, _, _)
normalizeKeys(normalized, keys, j) ==
    IF j > Len(keys) THEN normalized
    ELSE normalizeKeys(normalizeKey(normalized, keys[j], 1), keys, j + 1)

restoreStringResourceTokens(text, placeholders) ==
    IF text = EmptyText \/ DOMAIN placeholders = {} THEN text
    ELSE restoreInlineTokens(normalizeKeys(text, OrderedKeys(DOMAIN placeholders), 1),
                             placeholders)

-----------------------------------------------------------------------------
(* utils/language.ts: target-language heuristic *)

Keys == {"id", "text", "note"}     \* column keys of the ingested sheet
LockedKeys == {"id"}               \* the keys among them that match LOCKED_KEY_REGEX

isSymbolOnly(text) == text # EmptyText /\ \A i \in 1..Len(text) : text[i] = "SYM"

isNeutralToken(text) == isSymbolOnly(text)

targetLangToCode(lang) ==
    CASE lang = "Chinese" -> "zh"
      [] lang = "English" -> "en"
      [] lang = "Spanish" -> "es"
      [] lang = "French" -> "fr"
      [] lang = "German" -> "de"
      [] lang = "Italian" -> "it"
      [] lang = "Portuguese" -> "pt"
      [] lang = "Russian" -> "ru"
      [] OTHER -> "unknown"

isLikelyTargetLanguage(text, lang) ==
    IF text = EmptyText THEN TRUE
    ELSE IF isSymbolOnly(text) THEN TRUE
    ELSE IF ~Has(text, LatinSegs) /\ ~Has(text, CjkSegs) /\ ~Has(text, CyrillicSegs) THEN TRUE
    ELSE IF targetLangToCode(lang) = "zh" THEN Has(text, CjkSegs)
    ELSE IF targetLangToCode(lang) = "ru" THEN Has(text, CyrillicSegs)
    ELSE IF Has(text, CjkSegs) \/ Has(text, CyrillicSegs) THEN FALSE
    \* Latin text only: LANGUAGE_DIACRITICS.en matches any Latin letter, so the
    \* best score is English's for English words, tokens and placeholders
    ELSE TRUE

\* the keys of the untranslated cells of one row
detectUntranslatedCells(row, lang) ==
    {k \in DOMAIN row :
        /\ IsString(row[k])
        /\ row[k] # EmptyText
        /\ ~(k \in LockedKeys \/ isNeutralToken(row[k]) \/ isLikelyIdentifier(row[k]))
        /\ ~isLikelyTargetLanguage(row[k], lang)}

\* summarizeUntranslated: details as (row, key) pairs
summarizeUntranslated(records, lang) ==
    LET details == {c \in (1..Len(records)) \X Keys :
                        /\ c[2] \in DOMAIN records[c[1]]
                        /\ c[2] \in detectUntranslatedCells(records[c[1]], lang)}
    IN  [cells |-> Cardinality(details),
         rowIndices |-> {c[1] : c \in details},
         details |-> details]

-----------------------------------------------------------------------------
(* utils/postprocess.ts: polish pipeline *)

Replace(text, from, to) == [i \in 1..Len(text) |-> IF text[i] = from THEN to ELSE text[i]]

\* docx.ts lines 115-129, among them /([A-Za-z])([0-9])/g -> "$1 $2"
fixSegmentSpacing(segment) == Replace(Replace(segment, "ENsp", "EN"), "TOKd", "TOKsplit")

fixSpacingArtifacts(text) ==
    IF text = EmptyText \/ ~Has(text, LatinSegs) THEN text
    ELSE fixSegmentSpacing(text)

\* only entries whose keyword occurs in the original are enforced; the keyword
\* itself is one of the variants that are replaced by the preferred term
enforceGlossary(original, translated) ==
    IF original = EmptyText \/ translated = EmptyText THEN translated
    ELSE IF ~Has(original, {"ZHG"}) THEN translated
    ELSE Replace(translated, "ZHG", "EN")

adjustLongFormStatus(text) ==
    IF text = EmptyText THEN text ELSE Replace(text, "ENlf", "EN")

polishTranslation(original, translated) ==
    IF ~IsString(translated) THEN translated
    ELSE adjustLongFormStatus(enforceGlossary(original, fixSpacingArtifacts(translated)))

-----------------------------------------------------------------------------
(* utils/terminology.ts: the file is absent from the sources at hand.  The   *)
(* specification says the quality pass normalizes output and that a locked   *)
(* cell is never altered: English wording variants are rewritten to the      *)
(* preferred term in every cell that is not locked.                          *)

normalizeTerminology(row, lang) ==
    [k \in DOMAIN row |->
        IF /\ IsString(row[k])
           /\ targetLangToCode(lang) = "en"
           /\ k \notin LockedKeys
           /\ ~(~containsChinese(row[k]) /\ isLikelyIdentifier(row[k]))
        THEN Replace(row[k], "ENvar", "EN")
        ELSE row[k]]

-----------------------------------------------------------------------------
(* App.tsx: cell predicates and post-processing *)

valueNeedsTranslation(value, target) ==
    IsString(value) /\ value # EmptyText /\ ~isLikelyTargetLanguage(value, target)

rowNeedsTranslation(row, lang) ==
    \E k \in DOMAIN row : valueNeedsTranslation(row[k], lang)

shouldLockCell(key, value) ==
    IF ~IsString(value) THEN FALSE
    ELSE IF key \in LockedKeys THEN TRUE
    ELSE IF value = EmptyText THEN FALSE
    ELSE IF containsChinese(value) THEN FALSE
    ELSE isLikelyIdentifier(value)

shouldTranslateValue(value, lang, mode) ==
    IF ~IsString(value) THEN FALSE
    ELSE IF value = EmptyText THEN FALSE
    ELSE IF isNeutralToken(value) THEN FALSE
    ELSE IF mode = "full" THEN TRUE
    ELSE valueNeedsTranslation(value, lang)

\* `original` and `translated` have the same keys in every call of the source
applyPostprocessRow(original, translated, lang) ==
    normalizeTerminology(
        [k \in DOMAIN translated |->
            LET value == translated[k]
                hasOrig == k \in DOMAIN original /\ IsString(original[k])
                lockValue == IF hasOrig THEN original[k] ELSE value
                sourceText == IF hasOrig THEN original[k] ELSE EmptyText
            IN  IF ~IsString(value) THEN value
                ELSE IF shouldLockCell(k, lockValue) THEN value
                ELSE polishTranslation(sourceText, value)],
        lang)

\* handleDownload: the rows handed to exportToExcel
outputRows(origRecords, records, lang) ==
    [r \in 1..Len(records) |-> applyPostprocessRow(origRecords[r], records[r], lang)]

-----------------------------------------------------------------------------
(* utils/quality.ts *)

hasSpacingIssue(value) == Has(value, {"ENsp"})

runQualityChecks(original, translated) ==
    LET cellsOf == {c \in (1..Len(translated)) \X Keys :
                        c[2] \in DOMAIN translated[c[1]] /\ IsString(translated[c[1]][c[2]])}
        val(c) == translated[c[1]][c[2]]
        orig(c) == original[c[1]][c[2]]
        chinese == {c \in cellsOf : containsChinese(val(c))}
        placeholders == {c \in cellsOf : hasPlaceholder(val(c))}
        spacing == {c \in cellsOf : hasSpacingIssue(val(c))}
        idMismatch == {c \in cellsOf : shouldLockCell(c[2], orig(c)) /\ val(c) # orig(c)}
    IN  [present |-> TRUE,
         issues |-> [chinese |-> chinese, placeholders |-> placeholders,
                     idMismatch |-> idMismatch, spacing |-> spacing],
         totals |-> [cellsScanned |-> Cardinality(cellsOf),
                     chineseCells |-> Cardinality(chinese),
                     chineseRows |-> Cardinality({c[1] : c \in chinese}),
                     placeholderCells |-> Cardinality(placeholders),
                     placeholderRows |-> Cardinality({c[1] : c \in placeholders}),
                     idMismatches |-> Cardinality(idMismatch),
                     idMismatchRows |-> Cardinality({c[1] : c \in idMismatch}),
                     spacingIssues |-> Cardinality(spacing),
                     spacingRows |-> Cardinality({c[1] : c \in spacing})]]

-----------------------------------------------------------------------------
(* The ingested sheet.  Row 2 and the last row carry text, one row is       *)
(* already in English, the others hold numbers and symbols only.            *)

RowA == [id |-> NumCell, text |-> <<"ZH", "TOK">>, note |-> <<"EN", "CODE">>]
RowB == [id |-> <<"ZH">>, text |-> <<"ZHG">>, note |-> EmptyText]
RowE == [id |-> NumCell, text |-> <<"ENvar">>, note |-> <<"ENlf">>]
RowN == [id |-> NumCell, text |-> <<"SYM">>, note |-> EmptyText]

Sheet == [r \in 1..NumRows |->
            IF r = 2 THEN RowA
            ELSE IF r = NumRows THEN RowB
            ELSE IF r = 4 THEN RowE
            ELSE RowN]

\* a second document: its row 2 has a foreign text next to an English note
\* in a wording that normalizeTerminology rewrites
RowV == [id |-> NumCell, text |-> <<"ZH", "TOK">>, note |-> <<"ENvar">>]

SheetV == [r \in 1..NumRows |-> IF r = 2 THEN RowV ELSE Sheet[r]]

Sheets == {Sheet, SheetV}

TargetLangs == {"English", "Russian"}
Modes == {"full", "selective"}

\* the increasing enumeration of a set of row indexes
SortedSeq(S) ==
    [j \in 1..Cardinality(S) |-> CHOOSE x \in S : Cardinality({y \in S : y < x}) = j - 1]

\* Math.round(completed / total * 100)
Percent(completed, total) == (200 * completed + total) \div (2 * total)

CeilDiv(a, b) == (a + b - 1) \div b

CountTrue(flags) == Cardinality({r \in 1..Len(flags) : flags[r]})

-----------------------------------------------------------------------------
(* The remote translation service behind the hub.  A response row holds,    *)
(* cell by cell, a translation, the request's text unchanged, a translation *)
(* whose placeholder was renumbered, or nothing (the key is left out).  A   *)
(* response of the wrong shape is rejected by the hub's validation and is   *)
(* the same, for the caller, as a call that raises.                         *)

Undef == <<"#UNDEF">>

\* the service words its English with a spacing artifact
Styles(lang) ==
    IF targetLangToCode(lang) = "ru" THEN {"RU"} ELSE {"ENsp"}

SourceSegs(lang) ==
    IF targetLangToCode(lang) = "ru" THEN CjkSegs \cup EnglishSegs ELSE CjkSegs

Translated(cell, lang, style) ==
    LET out == IF targetLangToCode(lang) = "ru" THEN "RU" ELSE style
    IN  [i \in 1..Len(cell) |-> IF cell[i] \in SourceSegs(lang) THEN out ELSE cell[i]]

Renumbered(cell) ==
    [i \in 1..Len(cell) |->
        IF \E j \in 1..(Len(TKN) - 1) : cell[i] = TKN[j]
        THEN TKN[(CHOOSE j \in 1..(Len(TKN) - 1) : cell[i] = TKN[j]) + 1]
        ELSE cell[i]]

\* the ways in which the answer for one cell deviates from its translation:
\* text that carries a placeholder or a glossary keyword comes back unchanged,
\* a placeholder comes back renumbered, plain source text is left out, a code
\* is rewritten
CellDefects(cell, lang, style) ==
    IF ~IsString(cell) THEN {}
    ELSE IF Has(cell, SourceSegs(lang))
    THEN (IF hasPlaceholder(cell) \/ Has(cell, {"ZHG"}) THEN {cell} ELSE {Undef}) \cup
         (IF hasPlaceholder(cell) THEN {Renumbered(Translated(cell, lang, style))} ELSE {})
    ELSE IF Has(cell, {"CODE"}) THEN {Replace(cell, "CODE", "EN")}
    ELSE {}

\* the cell a deterministic service answers with
CellAnswer(b, cell, lang) ==
    IF ~IsString(cell) THEN cell
    ELSE IF Has(cell, SourceSegs(lang))
    THEN IF cell \in b.drop THEN Undef
         ELSE IF cell \in b.echo THEN cell
         ELSE IF cell \in b.leak /\ hasPlaceholder(cell)
              THEN Renumbered(Translated(cell, lang, b.style))
         ELSE Translated(cell, lang, b.style)
    ELSE cell

StripUndef(f) == [k \in {x \in DOMAIN f : f[x] # Undef} |-> f[k]]

FullRow(row, lang, style) ==
    [k \in DOMAIN row |-> IF IsString(row[k]) THEN Translated(row[k], lang, style)
                          ELSE row[k]]

FullResponse(records, lang, style) ==
    [j \in 1..Len(records) |-> FullRow(records[j], lang, style)]

IsFullResponse(records, lang, result) ==
    \E style \in Styles(lang) : result = FullResponse(records, lang, style)

\* the responses in which at most one cell deviates
BatchOutcomes(records, lang, style) ==
    {FullResponse(records, lang, style)} \cup
    UNION {UNION {{[FullResponse(records, lang, style) EXCEPT
                            ![j] = StripUndef([@ EXCEPT ![k] = d])] :
                            d \in CellDefects(records[j][k], lang, style)} :
                        k \in DOMAIN records[j]} :
                j \in 1..Len(records)}

\* the outcomes of one call of the service: it raises, or it returns a RecordSet;
\* without a key the service raises before it sends anything (part_012 lines 33-36)
Outcomes(b, req) ==
    IF ~b.keys THEN {[raise |-> TRUE, records |-> <<>>]}
    ELSE IF ~b.det
    THEN {[raise |-> TRUE, records |-> <<>>]} \cup
         {[raise |-> FALSE, records |-> res] :
             res \in BatchOutcomes(req.records, req.targetLang, b.style)}
    ELSE IF \/ \E j \in 1..Len(req.records) : req.records[j] \in b.fail
            \/ req.records \in b.reject
    THEN {[raise |-> TRUE, records |-> <<>>]}
    ELSE {[raise |-> FALSE,
           records |-> [j \in 1..Len(req.records) |->
                StripUndef([k \in DOMAIN req.records[j] |->
                    CellAnswer(b, req.records[j][k], req.targetLang)])]]}

-----------------------------------------------------------------------------
(* services/translationHub.ts as the orchestrator sees it (direct mode with *)
(* an OpenRouter and a DeepSeek key, no Gemini key)                         *)

\* part_008 lines 219-225, over the capabilities of a hub in direct mode
getFallbackPriority(h) ==
    (IF h.openRouter THEN <<"openrouter">> ELSE <<>>) \o <<"deepseek">>
        \o (IF h.hasGeminiKey THEN <<"gemini">> ELSE <<>>)

\* JSON.stringify({ lang, sample: records.slice(0, 2), model })
CacheKey(req) ==
    [lang |-> req.targetLang,
     sample |-> SubSeq(req.records, 1, Min(2, Len(req.records))),
     model |-> req.model]

CacheHas(c, key) == key \in DOMAIN c

CachePut(c, key, result) ==
    [k \in DOMAIN c \cup {key} |-> IF k = key THEN result ELSE c[k]]

\* the hub of the orchestrator's runs: direct mode, OpenRouter key, no Gemini key
DirectHub == [proxy |-> FALSE, openRouter |-> TRUE, hasGeminiKey |-> FALSE]

\* the hub of an environment that holds no key at all
NoKeysHub == [proxy |-> FALSE, openRouter |-> FALSE, hasGeminiKey |-> FALSE]

\* no translateBatch call has been made
NoCall ==
    [req |-> [records |-> <<>>, targetLang |-> "English", model |-> "auto"],
     at |-> "none", attempt |-> 0, outcome |-> "none", value |-> <<>>, calls |-> 0,
     tried |-> <<>>,          \* the backend calls of this call, in their order (history)
     producer |-> <<>>,       \* the backend that produced each stored result (history)
     computedFor |-> <<>>]    \* the records each stored result was computed from (history)

-----------------------------------------------------------------------------
(* The component state as one record, so that every handler step is a       *)
(* function from state to state.                                            *)

Cur ==
    [data |-> data, targetLang |-> targetLang, translationMode |-> translationMode,
     enginePreference |-> enginePreference, processedData |-> processedData,
     translatedFlags |-> translatedFlags, missingRowIndices |-> missingRowIndices,
     translationStatus |-> translationStatus, activeStage |-> activeStage,
     processingState |-> processingState, translationIssues |-> translationIssues,
     qualityReport |-> qualityReport, pauseRequested |-> pauseRequested,
     store |-> store, cache |-> cache, lastEngine |-> lastEngine,
     hub |-> hub, call |-> call,
     pc |-> pc, kind |-> kind, cl |-> cl, w |-> w, backend |-> backend,
     guarded |-> guarded, strings |-> strings, hist |-> hist]

ApplyRaw(s) ==
    /\ data' = s.data
    /\ targetLang' = s.targetLang
    /\ translationMode' = s.translationMode
    /\ enginePreference' = s.enginePreference
    /\ processedData' = s.processedData
    /\ translatedFlags' = s.translatedFlags
    /\ missingRowIndices' = s.missingRowIndices
    /\ translationStatus' = s.translationStatus
    /\ activeStage' = s.activeStage
    /\ processingState' = s.processingState
    /\ translationIssues' = s.translationIssues
    /\ qualityReport' = s.qualityReport
    /\ pauseRequested' = s.pauseRequested
    /\ store' = s.store
    /\ cache' = s.cache
    /\ lastEngine' = s.lastEngine
    /\ hub' = s.hub
    /\ call' = s.call
    /\ pc' = s.pc
    /\ kind' = s.kind
    /\ cl' = s.cl
    /\ w' = s.w
    /\ backend' = s.backend
    /\ guarded' = s.guarded
    /\ strings' = s.strings
    /\ hist' = s.hist

Holds(s) ==
    /\ data = s.data
    /\ targetLang = s.targetLang
    /\ translationMode = s.translationMode
    /\ enginePreference = s.enginePreference
    /\ processedData = s.processedData
    /\ translatedFlags = s.translatedFlags
    /\ missingRowIndices = s.missingRowIndices
    /\ translationStatus = s.translationStatus
    /\ activeStage = s.activeStage
    /\ processingState = s.processingState
    /\ translationIssues = s.translationIssues
    /\ qualityReport = s.qualityReport
    /\ pauseRequested = s.pauseRequested
    /\ store = s.store
    /\ cache = s.cache
    /\ lastEngine = s.lastEngine
    /\ hub = s.hub
    /\ call = s.call
    /\ pc = s.pc
    /\ kind = s.kind
    /\ cl = s.cl
    /\ w = s.w
    /\ backend = s.backend
    /\ guarded = s.guarded
    /\ strings = s.strings
    /\ hist = s.hist

NoSnapshot == [records |-> <<>>, translatedFlags |-> <<>>, missingRows |-> {}]
\* qualityReport is null until a check has run
NoReport ==
    [present |-> FALSE,
     issues |-> [chinese |-> {}, placeholders |-> {}, idMismatch |-> {}, spacing |-> {}],
     totals |-> [cellsScanned |-> 0, chineseCells |-> 0, chineseRows |-> 0,
                 placeholderCells |-> 0, placeholderRows |-> 0, idMismatches |-> 0,
                 idMismatchRows |-> 0, spacingIssues |-> 0, spacingRows |-> 0]]

\* no text is in the guard
NoGuard == [stage |-> "none", guard |-> "none", text |-> EmptyText,
            sanitized |-> EmptyText, placeholders |-> Null, restored |-> EmptyText]

\* the string translator before its first request (part_008 lines 186-193)
NoStrings == [stringStatus |-> "idle", input |-> EmptyText, payload |-> <<>>,
              placeholders |-> Null, awaiting |-> {}, results |-> <<>>,
              stringOutputs |-> <<>>, runs |-> 0]

createIssueSummary == [cells |-> 0, rowIndices |-> {}, missingRows |-> {}]

NoClosure == [processedData |-> <<>>, translatedFlags |-> <<>>, missingRowIndices |-> {}]
NoLocals == [finalResults |-> <<>>, flags |-> <<>>, missingRows |-> {},
             i |-> 0, items |-> <<>>, m |-> 0, shouldResume |-> FALSE]

\* the locals and the closure of a handler are gone once it has returned
Settle(s) == IF s.pc = "idle" THEN [s EXCEPT !.w = NoLocals, !.cl = NoClosure, !.kind = "none"]
             ELSE s

Apply(s) == ApplyRaw(Settle(s))

\* observations of the handler in flight (history, not program state)
NoHist(ops) ==
    [ops |-> ops,             \* handlers started so far
     called |-> FALSE,        \* the handler reached the remote service
     batches |-> 0,           \* batches dispatched by the batch loop
     dispatched |-> {},       \* rows dispatched by the batch loop
     fromCache |-> {},        \* rows of the batches answered from the hub cache
     offered |-> <<>>,        \* the engines the retry batch in flight was offered to
     retryFailed |-> {},      \* rows of the retry batches that every engine failed
     failed |-> {},           \* rows of the batches whose hub call raised
     nFailed |-> 0,           \* number of those batches
     allFull |-> TRUE,        \* every returned batch was fully translated
     lastFailed |-> FALSE,    \* the latest batch of the loop raised
     reported |-> FALSE,      \* the loop has reported its progress
     audits |-> 0,            \* times auditTranslation has run
     auditRetries |-> 0,      \* times the audit has called retryMissingRows
     auditRows |-> {},        \* rows the audit has handed to retryMissingRows
     mode |-> "none",         \* the mode runTranslation was called with
     loaded |-> NoSnapshot,   \* the loaded progress a resume began with
     scenario |-> "other"]    \* fresh / paused / resumed bookkeeping

\* saveTranslationProgress: the whole entry is overwritten
persistProgress(s, records, flags, missingRows) ==
    [s EXCEPT !.store = [records |-> records, translatedFlags |-> flags,
                         missingRows |-> missingRows]]

refreshTranslationIssues(s, records, missingCandidates) ==
    LET summary == summarizeUntranslated(records, s.targetLang)
        refreshedMissing == missingCandidates \cap summary.rowIndices
    IN  [s EXCEPT !.missingRowIndices = refreshedMissing,
                  !.translationIssues = [cells |-> summary.cells,
                                         rowIndices |-> summary.rowIndices \cup refreshedMissing,
                                         missingRows |-> refreshedMissing]]

-----------------------------------------------------------------------------
(* App.tsx runTranslation: the batch loop *)

\* lines 1005-1028: the row sent to the hub
sanitizedRow(row, lang, mode) ==
    [k \in DOMAIN row |->
        IF ~IsString(row[k]) THEN row[k]
        ELSE IF row[k] = EmptyText \/ shouldLockCell(k, row[k])
                \/ ~shouldTranslateValue(row[k], lang, mode) THEN row[k]
        ELSE guardTranslationTokens(row[k]).sanitized]

\* lines 1070-1083 and 1364-1377: polish the candidate, then restore the tokens
restoreGuarded(polished, placeholders) ==
    IF IsString(polished) /\ DOMAIN placeholders # {}
    THEN restoreTranslationTokens(polished, placeholders)
    ELSE polished

mergeCell(originalValue, candidate) ==
    restoreGuarded(
        IF IsString(candidate)
        THEN polishTranslation(IF IsString(originalValue) THEN originalValue ELSE EmptyText,
                               candidate)
        ELSE candidate,
        IF IsString(originalValue)
        THEN guardTranslationTokens(originalValue).placeholders ELSE Null)

\* lines 1046-1096: one row of a returned batch; hasT is FALSE when the
\* returned array has no element at the row's position
\* lines 1051-1060: the required keys the returned row does not carry
missingKeys(original, translated, hasT, lang, mode) ==
    {k \in DOMAIN original :
        /\ IsString(original[k]) /\ shouldTranslateValue(original[k], lang, mode)
        /\ ~(hasT /\ k \in DOMAIN translated)}

\* a merge that takes the service's answer for a locked cell too
mergedRowUnlocked(original, translated, hasT, lang, mode) ==
    [k \in DOMAIN original |->
        IF ~(hasT /\ k \in DOMAIN translated) THEN original[k]
        ELSE IF ~shouldTranslateValue(original[k], lang, mode)
        THEN original[k]
        ELSE mergeCell(original[k], translated[k])]

\* lines 1062-1086
mergedRow(original, translated, hasT, lang, mode) ==
    [k \in DOMAIN original |->
        IF ~(hasT /\ k \in DOMAIN translated) THEN original[k]
        ELSE IF shouldLockCell(k, original[k])
                \/ ~shouldTranslateValue(original[k], lang, mode)
        THEN original[k]
        ELSE mergeCell(original[k], translated[k])]

\* lines 1088-1096: the row is complete when no key is missing and the
\* heuristic finds no untranslated cell
rowResult(final, noneMissing, lang) ==
    [row |-> final,
     complete |-> noneMissing /\ detectUntranslatedCells(final, lang) = {}]

mergeRow(original, translated, hasT, lang, mode) ==
    rowResult(normalizeTerminology(mergedRow(original, translated, hasT, lang, mode), lang),
              missingKeys(original, translated, hasT, lang, mode) = {},
              lang)

\* a chunk that keeps the rows already flagged complete
chunkIndices(flags, i, n) ==
    SortedSeq(i..Min(i + BATCH_SIZE - 1, n))

\* lines 991-995
pendingIndices(flags, i, n) ==
    SortedSeq({r \in i..Min(i + BATCH_SIZE - 1, n) : ~flags[r]})

batchRequest(s, i) ==
    LET pending == pendingIndices(s.w.flags, i, Len(s.data))
    IN  [records |-> [j \in 1..Len(pending) |->
                        sanitizedRow(s.data[pending[j]], s.targetLang, s.translationMode)],
         targetLang |-> s.targetLang,
         model |-> s.enginePreference]

\* lines 1129-1152 and runStage's finally, then line 1162
LoopEnd(s, paused) ==
    LET s1 == persistProgress(
                [s EXCEPT !.missingRowIndices = s.w.missingRows,
                          !.translatedFlags = s.w.flags,
                          !.processedData = s.w.finalResults,
                          !.activeStage = "none"],
                s.w.finalResults, s.w.flags, s.w.missingRows)
    IN  IF paused
        THEN [s1 EXCEPT !.processingState.status = "idle",
                        !.translationStatus = "paused",
                        !.pc = "idle"]
        ELSE [s1 EXCEPT !.processingState =
                            [status |-> "completed",
                             progress |-> Percent(CountTrue(s.w.flags), Len(s.data)),
                             currentBatch |-> CeilDiv(Len(s.data), BATCH_SIZE)],
                        !.translationStatus = "completed",
                        !.pc = "audit"]

\* lines 1045-1119: a returned batch is merged, persisted and published
\* lines 1045-1096: the rows of the batch, merged one by one
batchResults(s, pending, translatedBatch) ==
    [j \in 1..Len(pending) |->
        mergeRow(s.data[pending[j]],
                 IF j <= Len(translatedBatch) THEN translatedBatch[j] ELSE Null,
                 j <= Len(translatedBatch), s.targetLang, s.translationMode)]

\* a loop that keeps the flags of the rows of the latest batch only
batchFlagsOnly(flags, pending, res) ==
    [r \in 1..Len(flags) |->
        /\ \E j \in 1..Len(pending) : pending[j] = r
        /\ res[CHOOSE j \in 1..Len(pending) : pending[j] = r].complete]

\* lines 1087-1096: the flags of the rows of the batch are set
batchFlags(flags, pending, res) ==
    [r \in 1..Len(flags) |->
        IF \E j \in 1..Len(pending) : pending[j] = r
        THEN res[CHOOSE j \in 1..Len(pending) : pending[j] = r].complete
        ELSE flags[r]]

\* lines 1098-1119: the locals are updated, persisted and published
publishBatch(s, pending, res, full) ==
    LET n == Len(s.data)
        pos(r) == CHOOSE j \in 1..Len(pending) : pending[j] = r
        inBatch(r) == \E j \in 1..Len(pending) : pending[j] = r
        finalResults == [r \in 1..n |-> IF inBatch(r) THEN res[pos(r)].row
                                         ELSE s.w.finalResults[r]]
        flags == batchFlags(s.w.flags, pending, res)
        missingRows == (s.w.missingRows \ {r \in 1..n : inBatch(r) /\ res[pos(r)].complete})
                       \cup {r \in 1..n : inBatch(r) /\ ~res[pos(r)].complete}
    IN  [s EXCEPT !.store = [records |-> finalResults, translatedFlags |-> flags,
                             missingRows |-> missingRows],
                  !.w.finalResults = finalResults,
                  !.w.flags = flags,
                  !.w.missingRows = missingRows,
                  !.processedData = finalResults,
                  !.translatedFlags = flags,
                  !.missingRowIndices = missingRows,
                  !.processingState.progress = Percent(CountTrue(flags), n),
                  !.processingState.currentBatch = ((s.w.i - 1) \div BATCH_SIZE) + 1,
                  !.hist.lastFailed = FALSE,
                  !.hist.reported = TRUE,
                  !.hist.allFull = s.hist.allFull /\ full,
                  !.pc = "delay"]

\* lines 1045-1119: a returned batch is merged, persisted and published
BatchSuccess(s, translatedBatch) ==
    publishBatch(s, pendingIndices(s.w.flags, s.w.i, Len(s.data)),
                 batchResults(s, pendingIndices(s.w.flags, s.w.i, Len(s.data)), translatedBatch),
                 IsFullResponse(batchRequest(s, s.w.i).records, s.targetLang, translatedBatch))

\* a failed batch that is recorded in memory only
BatchFailureUnsaved(s) ==
    LET pending == pendingIndices(s.w.flags, s.w.i, Len(s.data))
        rows == {pending[j] : j \in 1..Len(pending)}
        missingRows == s.w.missingRows \cup rows
    IN  [s EXCEPT !.w.missingRows = missingRows,
                  !.missingRowIndices = missingRows,
                  !.hist.failed = s.hist.failed \cup rows,
                  !.hist.nFailed = Min(s.hist.nFailed + 1, 2),
                  !.hist.lastFailed = TRUE]

\* lines 1035-1043: the hub call raised
BatchFailure(s) ==
    LET pending == pendingIndices(s.w.flags, s.w.i, Len(s.data))
        rows == {pending[j] : j \in 1..Len(pending)}
        missingRows == s.w.missingRows \cup rows
        s1 == persistProgress(s, s.w.finalResults, s.w.flags, missingRows)
    IN  [s1 EXCEPT !.w.missingRows = missingRows,
                   !.missingRowIndices = missingRows,
                   !.hist.failed = s.hist.failed \cup rows,
                   !.hist.nFailed = Min(s.hist.nFailed + 1, 2),
                   !.hist.lastFailed = TRUE]

\* the loop header at index i, up to the next point where the handler waits:
\* chunks without a pending row are skipped, a cached response is merged at once
RECURSIVE RunLoopFrom(_, _)
RunLoopFrom(s, i) ==
    IF i > Len(s.data) THEN LoopEnd(s, FALSE)
    ELSE IF pendingIndices(s.w.flags, i, Len(s.data)) = <<>>
    THEN RunLoopFrom(s, i + BATCH_SIZE)
    ELSE LET pending == pendingIndices(s.w.flags, i, Len(s.data))
             s1 == [s EXCEPT !.w.i = i,
                             !.hist.batches = Min(s.hist.batches + 1, 3),
                             !.hist.dispatched =
                                 s.hist.dispatched \cup {pending[j] : j \in 1..Len(pending)}]
             key == CacheKey(batchRequest(s1, i))
         IN  IF CacheHas(s.cache, key)
             THEN BatchSuccess([s1 EXCEPT !.hist.fromCache =
                                   @ \cup {pending[j] : j \in 1..Len(pending)}],
                               s.cache[key])
             ELSE [s1 EXCEPT !.pc = "inflight", !.hist.called = TRUE]

\* a loop that ends at the first batch whose hub call raised
HubReturnAbort(s, out) ==
    IF out.raise THEN LoopEnd(BatchFailure(s), FALSE)
    ELSE LET req == batchRequest(s, s.w.i)
         IN  BatchSuccess([s EXCEPT !.cache = CachePut(s.cache, CacheKey(req), out.records),
                                    !.lastEngine = req.model],
                          out.records)

\* the hub call of a batch settles
HubReturn(s, out) ==
    IF out.raise THEN RunLoopFrom(BatchFailure(s), s.w.i + BATCH_SIZE)
    ELSE LET req == batchRequest(s, s.w.i)
         IN  BatchSuccess([s EXCEPT !.cache = CachePut(s.cache, CacheKey(req), out.records),
                                    !.lastEngine = req.model],
                          out.records)

\* lines 1121-1126: the 100 ms timer fired
DelayDone(s) ==
    IF s.pauseRequested THEN LoopEnd(s, TRUE)
    ELSE RunLoopFrom(s, s.w.i + BATCH_SIZE)

-----------------------------------------------------------------------------
(* App.tsx retryMissingRows and retryCellsByKeys *)

\* lines 1264-1281: the cells of the source row that are sent again
retrySanitizedRow(row, keys, lang, mode) ==
    LET kept == {k \in keys \cap DOMAIN row :
                    \/ ~IsString(row[k])
                    \/ ~(row[k] = EmptyText \/ shouldLockCell(k, row[k])
                         \/ ~shouldTranslateValue(row[k], lang, mode))}
    IN  [k \in kept |-> IF ~IsString(row[k]) THEN row[k]
                        ELSE guardTranslationTokens(row[k]).sanitized]

\* a key that is not a column of the source row reads undefined, which is sent
\* as it is; the sheets of the model give every row the same columns
buildRetryItems(s, rows, keysOf(_)) ==
    LET kept == {r \in rows :
                    /\ keysOf(r) # {}
                    /\ DOMAIN retrySanitizedRow(s.data[r], keysOf(r),
                                                s.targetLang, s.translationMode) # {}}
        order == SortedSeq(kept)
    IN  [j \in 1..Len(order) |->
            [rowIdx |-> order[j],
             keys |-> keysOf(order[j]),
             sanitizedRow |-> retrySanitizedRow(s.data[order[j]], keysOf(order[j]),
                                                s.targetLang, s.translationMode)]]

retryChunk(s) == SubSeq(s.w.items, s.w.i, Min(s.w.i + RETRY_BATCH_SIZE - 1, Len(s.w.items)))

retryRequest(s) ==
    LET chunk == retryChunk(s)
    IN  [records |-> [j \in 1..Len(chunk) |-> chunk[j].sanitizedRow],
         targetLang |-> s.targetLang,
         model |-> getFallbackPriority(s.hub)[s.w.m]]

\* lines 1349-1391 (retryMissingRows) and 1519-1551 (retryCellsByKeys)
\* the keys of the item that are merged (lines 1356-1363 / 1526-1533)
touchedKeys(original, keys, updated, lang, mode) ==
    {k \in keys :
        /\ ~(shouldLockCell(k, original[k]) \/ ~shouldTranslateValue(original[k], lang, mode))
        /\ k \in DOMAIN updated}

retryMergedRow(original, base, touched, updated) ==
    [k \in DOMAIN base |->
        IF k \in touched THEN mergeCell(original[k], updated[k]) ELSE base[k]]

\* retryCellsByKeys sets the flag of every returned row (line 1550)
retryRowResult(final, allTouched, lang, always) ==
    [row |-> final,
     complete |-> IF always THEN TRUE
                  ELSE allTouched /\ detectUntranslatedCells(final, lang) = {}]

\* lines 1349-1391 (retryMissingRows) and 1519-1551 (retryCellsByKeys)
retryMergeRow(s, item, updated) ==
    retryRowResult(
        normalizeTerminology(
            retryMergedRow(s.data[item.rowIdx], s.w.finalResults[item.rowIdx],
                           touchedKeys(s.data[item.rowIdx], item.keys, updated,
                                       s.targetLang, s.translationMode),
                           updated),
            s.targetLang),
        Cardinality(touchedKeys(s.data[item.rowIdx], item.keys, updated,
                                s.targetLang, s.translationMode)) >= Cardinality(item.keys),
        s.targetLang, s.kind = "retryCells")

\* lines 1393-1402 / 1553-1556: publish and persist after a retry batch
retryPublish(s) ==
    IF s.kind = "retryCells"
    THEN persistProgress([s EXCEPT !.processedData = s.w.finalResults,
                                   !.translatedFlags = s.w.flags],
                         s.w.finalResults, s.w.flags, s.cl.missingRowIndices)
    ELSE persistProgress([s EXCEPT !.processedData = s.w.finalResults,
                                   !.translatedFlags = s.w.flags,
                                   !.missingRowIndices = s.w.missingRows],
                         s.w.finalResults, s.w.flags, s.w.missingRows)

\* the rows of the retry batch that came back, merged one by one
retryResults(s, chunk, translatedBatch) ==
    [j \in 1..Min(Len(chunk), Len(translatedBatch)) |->
        retryMergeRow(s, chunk[j], translatedBatch[j])]

retryUpdate(s, chunk, res) ==
    LET n == Len(s.data)
        at(r) == CHOOSE j \in 1..Len(res) : chunk[j].rowIdx = r
        inBatch(r) == \E j \in 1..Len(res) : chunk[j].rowIdx = r
    IN  [s EXCEPT !.w.finalResults = [r \in 1..n |->
                      IF inBatch(r) THEN res[at(r)].row ELSE s.w.finalResults[r]],
                  !.w.flags = [r \in 1..n |->
                      IF inBatch(r) THEN res[at(r)].complete ELSE s.w.flags[r]],
                  !.w.missingRows =
                      IF s.kind = "retryCells" THEN s.w.missingRows
                      ELSE (s.w.missingRows \ {r \in 1..n : inBatch(r) /\ res[at(r)].complete})
                           \cup {r \in 1..n : inBatch(r) /\ ~res[at(r)].complete}]

RetryBatchSuccess(s, translatedBatch) ==
    retryPublish(retryUpdate(s, retryChunk(s), retryResults(s, retryChunk(s), translatedBatch)))

\* lines 1405-1432 / 1559-1564: after the last retry batch
RetryEnd(s) ==
    LET s1 == retryPublish(s)
        summary == summarizeUntranslated(s.w.finalResults, s.targetLang)
    IN  IF s.kind = "retryCells"
        THEN [s1 EXCEPT !.qualityReport = runQualityChecks(s.data, s.w.finalResults),
                        !.pc = "idle"]
        ELSE [s1 EXCEPT !.translationIssues =
                            [cells |-> summary.cells,
                             rowIndices |-> summary.rowIndices \cup s.w.missingRows,
                             missingRows |-> s.w.missingRows],
                        !.pc = "idle"]

\* the retry loop at batch index i and engine index m, up to the next wait
RECURSIVE RetryLoopFrom(_, _, _)
RetryLoopFrom(s, i, m) ==
    IF i > Len(s.w.items) THEN RetryEnd(s)
    ELSE IF m > Len(getFallbackPriority(s.hub))
    THEN RetryLoopFrom([s EXCEPT !.hist.retryFailed =
                            @ \cup {retryChunk(s)[j].rowIdx : j \in 1..Len(retryChunk(s))}],
                       i + RETRY_BATCH_SIZE, 1)
    ELSE LET s1 == [s EXCEPT !.w.i = i, !.w.m = m]
             key == CacheKey(retryRequest(s1))
         IN  IF CacheHas(s.cache, key)
             THEN RetryLoopFrom(
                      RetryBatchSuccess(
                          [s1 EXCEPT !.hist.fromCache =
                               @ \cup {retryChunk(s1)[j].rowIdx : j \in 1..Len(retryChunk(s1))}],
                          s.cache[key]),
                      i + RETRY_BATCH_SIZE, 1)
             ELSE [s1 EXCEPT !.pc = "retryInflight", !.hist.called = TRUE,
                             !.hist.offered = (IF m = 1 THEN <<>> ELSE @)
                                                  \o <<retryRequest(s1).model>>]

\* a retry loop that goes back to the first engine when a later one fails
RetryReturnStartOver(s, out) ==
    IF out.raise THEN RetryLoopFrom(s, s.w.i, IF s.w.m = 1 THEN 2 ELSE 1)
    ELSE LET req == retryRequest(s)
         IN  RetryLoopFrom(
                RetryBatchSuccess([s EXCEPT !.cache = CachePut(s.cache, CacheKey(req), out.records),
                                            !.lastEngine = req.model],
                                  out.records),
                s.w.i + RETRY_BATCH_SIZE, 1)

\* the hub call of a retry batch settles
RetryReturn(s, out) ==
    IF out.raise THEN RetryLoopFrom(s, s.w.i, s.w.m + 1)
    ELSE LET req == retryRequest(s)
         IN  RetryLoopFrom(
                RetryBatchSuccess([s EXCEPT !.cache = CachePut(s.cache, CacheKey(req), out.records),
                                            !.lastEngine = req.model],
                                  out.records),
                s.w.i + RETRY_BATCH_SIZE, 1)

\* lines 1227-1321: retryMissingRows up to its first wait; the flags, the
\* missing rows and the processed records are read from the closure
StartRetryMissing(s, rowIndices, baseSnapshot, hasBase) ==
    LET n == Len(s.data)
        uniqueIndices == rowIndices \cap (1..n)
        sourceRecords == IF hasBase /\ Len(baseSnapshot) = n THEN baseSnapshot
                         ELSE IF Len(s.cl.processedData) = n THEN s.cl.processedData
                         ELSE s.data
        details == summarizeUntranslated(sourceRecords, s.targetLang).details
        keysOf(r) == {c[2] : c \in {d \in details : d[1] = r}}
        retryItems == buildRetryItems(s, uniqueIndices, keysOf)
        staleFlags == IF Len(s.cl.translatedFlags) = n THEN s.cl.translatedFlags
                      ELSE [r \in 1..n |-> FALSE]
    IN  IF uniqueIndices = {} THEN [s EXCEPT !.pc = "idle"]
        ELSE IF retryItems = <<>>
        THEN LET s1 == refreshTranslationIssues(s, sourceRecords, s.cl.missingRowIndices)
             IN  persistProgress([s1 EXCEPT !.processedData = sourceRecords,
                                            !.translatedFlags = staleFlags,
                                            !.pc = "idle"],
                                 sourceRecords, staleFlags, s1.missingRowIndices)
        ELSE RetryLoopFrom([s EXCEPT !.kind = "retryMissing",
                                     !.w = [finalResults |-> sourceRecords,
                                            flags |-> staleFlags,
                                            missingRows |-> s.cl.missingRowIndices,
                                            i |-> 1, items |-> retryItems, m |-> 1,
                                            shouldResume |-> FALSE]],
                           1, 1)

\* lines 1194-1221: auditTranslation(latestResults), called at line 1163
Audit(s) ==
    LET records == s.w.finalResults
        summary == summarizeUntranslated(records, s.targetLang)
        missing == s.cl.missingRowIndices
        mergedRowIndices == summary.rowIndices \cup missing
        s1 == [s EXCEPT !.translationIssues = [cells |-> summary.cells,
                                               rowIndices |-> mergedRowIndices,
                                               missingRows |-> missing],
                        !.hist.audits = Min(s.hist.audits + 1, 2)]
    IN  IF summary.cells = 0 /\ missing = {} THEN [s1 EXCEPT !.pc = "idle"]
        ELSE IF mergedRowIndices = {} THEN [s1 EXCEPT !.pc = "idle"]
        ELSE StartRetryMissing([s1 EXCEPT !.hist.auditRetries = Min(s.hist.auditRetries + 1, 2),
                                          !.hist.auditRows = mergedRowIndices],
                               mergedRowIndices, records, TRUE)

\* lines 1435-1491 and 1567-1589: retryPlaceholderCells up to its first wait
StartRetryCells(s) ==
    LET n == Len(s.data)
        issues == s.qualityReport.issues.placeholders
        keysOf(r) == {c[2] : c \in {d \in issues : d[1] = r}}
        retryItems == buildRetryItems(s, {c[1] : c \in issues} \cap (1..n), keysOf)
    IN  IF retryItems = <<>> THEN [s EXCEPT !.pc = "idle"]
        ELSE RetryLoopFrom(
                [s EXCEPT !.kind = "retryCells",
                          !.w = [finalResults |-> IF Len(s.cl.processedData) = n
                                                  THEN s.cl.processedData ELSE s.data,
                                 flags |-> IF Len(s.cl.translatedFlags) = n
                                           THEN s.cl.translatedFlags
                                           ELSE [r \in 1..n |-> FALSE],
                                 missingRows |-> s.cl.missingRowIndices,
                                 i |-> 1, items |-> retryItems, m |-> 1,
                                 shouldResume |-> FALSE]],
                1, 1)

FirstPending(flags) ==
    IF \E r \in 1..Len(flags) : ~flags[r]
    THEN CHOOSE r \in 1..Len(flags) : ~flags[r] /\ \A q \in 1..(r - 1) : flags[q]
    ELSE Len(flags) + 1

Closure(s) ==
    [processedData |-> s.processedData, translatedFlags |-> s.translatedFlags,
     missingRowIndices |-> s.missingRowIndices]

\* lines 924-927
initialFlags(s) ==
    IF s.translationMode = "selective"
    THEN [r \in 1..Len(s.data) |-> ~rowNeedsTranslation(s.data[r], s.targetLang)]
    ELSE [r \in 1..Len(s.data) |-> FALSE]

\* a run that never takes the flags of the state over
workingFlagsFresh(s, shouldResume) == initialFlags(s)

\* lines 928-931
workingFlags(s, shouldResume) ==
    IF shouldResume /\ Len(s.translatedFlags) = Len(s.data)
    THEN s.translatedFlags ELSE initialFlags(s)

\* lines 914-990: runTranslation(mode) up to its first wait
StartRun(s, mode) ==
    LET n == Len(s.data)
        shouldResume == mode = "resume" /\ Len(s.processedData) = n
        workingResults == IF shouldResume THEN s.processedData ELSE s.data
        flags == workingFlags(s, shouldResume)
        workingMissing == IF shouldResume THEN s.missingRowIndices ELSE {}
        resumeRow == Min(FirstPending(flags), n)
        s1 == IF ~shouldResume
              THEN [s EXCEPT !.store = NoSnapshot,
                             !.hist.mode = mode,
                             !.processedData = <<>>,
                             !.translationIssues = createIssueSummary,
                             !.translatedFlags = initialFlags(s),
                             !.missingRowIndices = {},
                             !.processingState = [status |-> "processing", progress |-> 0,
                                                  currentBatch |-> 0]]
              ELSE [s EXCEPT !.hist.mode = mode,
                             !.hist.loaded = [records |-> s.processedData,
                                              translatedFlags |-> s.translatedFlags,
                                              missingRows |-> s.missingRowIndices],
                             !.processingState.status = "processing",
                             !.processingState.currentBatch = CeilDiv(resumeRow, BATCH_SIZE)]
        startIndex == IF shouldResume THEN FirstPending(flags) ELSE 1
        locals == [finalResults |-> workingResults, flags |-> flags,
                   missingRows |-> workingMissing, i |-> startIndex, items |-> <<>>, m |-> 1,
                   shouldResume |-> shouldResume]
    IN  IF startIndex > n /\ shouldResume
        THEN [s1 EXCEPT !.translationStatus = "completed"]
        ELSE IF s.activeStage # "none"
        THEN \* lines 1595-1598: runStage returns at once, without a result; then
             \* lines 1161-1164
             [s1 EXCEPT !.pauseRequested = FALSE,
                        !.translationStatus = "completed",
                        !.kind = "run",
                        !.cl = Closure(s),
                        !.w = locals,
                        !.pc = "audit"]
        ELSE RunLoopFrom([s1 EXCEPT !.pauseRequested = FALSE,
                                    !.translationStatus = "running",
                                    !.activeStage = "translate",
                                    !.kind = "run",
                                    !.cl = Closure(s),
                                    !.w = locals],
                         startIndex)

-----------------------------------------------------------------------------
(* Ingestion, the snapshot-load effect and the synchronous handlers *)

\* the load effect, had it taken the snapshot's records whatever their count
IngestWhole(s, records) ==
    LET n == Len(records)
        snapshot == s.store
        normalized == snapshot.records
        flags == IF Len(snapshot.translatedFlags) = n THEN snapshot.translatedFlags
                 ELSE [r \in 1..n |-> r <= Len(snapshot.records)]
        s1 == [s EXCEPT !.data = records,
                        !.qualityReport = NoReport,
                        !.activeStage = "none",
                        !.translationStatus = "idle",
                        !.pauseRequested = FALSE,
                        !.processedData = <<>>,
                        !.translationIssues = createIssueSummary,
                        !.translatedFlags = [r \in 1..n |-> FALSE],
                        !.missingRowIndices = {},
                        !.processingState = [status |-> "analyzing", progress |-> 0,
                                             currentBatch |-> 0]]
    IN  IF Len(snapshot.records) = 0 THEN s1
        ELSE [s1 EXCEPT !.processedData = normalized,
                        !.translatedFlags = flags,
                        !.missingRowIndices = snapshot.missingRows,
                        !.processingState = [status |-> "idle",
                                             progress |-> Percent(CountTrue(flags), n),
                                             currentBatch |-> CeilDiv(CountTrue(flags), BATCH_SIZE)],
                        !.translationStatus = "paused"]

\* lines 296-323 (handleFileUpload, sheet branch) followed by the effect of
\* lines 326-362, which runs because data.length changed
Ingest(s, records) ==
    LET n == Len(records)
        snapshot == s.store
        normalized == IF Len(snapshot.records) = n THEN snapshot.records
                      ELSE [r \in 1..n |-> IF r <= Len(snapshot.records)
                                           THEN snapshot.records[r] ELSE records[r]]
        flags == IF Len(snapshot.translatedFlags) = n THEN snapshot.translatedFlags
                 ELSE [r \in 1..n |-> r <= Len(snapshot.records)]
        s1 == [s EXCEPT !.data = records,
                        !.qualityReport = NoReport,
                        !.activeStage = "none",
                        !.translationStatus = "idle",
                        !.pauseRequested = FALSE,
                        !.processedData = <<>>,
                        !.translationIssues = createIssueSummary,
                        !.translatedFlags = [r \in 1..n |-> FALSE],
                        !.missingRowIndices = {},
                        !.processingState = [status |-> "analyzing", progress |-> 0,
                                             currentBatch |-> 0]]
    IN  IF Len(snapshot.records) = 0 THEN s1
        ELSE [s1 EXCEPT !.processedData = normalized,
                        !.translatedFlags = flags,
                        !.missingRowIndices = snapshot.missingRows,
                        !.processingState = [status |-> "idle",
                                             progress |-> Percent(CountTrue(flags), n),
                                             currentBatch |-> CeilDiv(CountTrue(flags), BATCH_SIZE)],
                        !.translationStatus = "paused"]

\* the component as constructed, before a file is chosen
Constructed(b) ==
    [data |-> <<>>, targetLang |-> "English", translationMode |-> "full",
     enginePreference |-> IF b.keys THEN "openrouter" ELSE "deepseek",
     processedData |-> <<>>,
     translatedFlags |-> <<>>, missingRowIndices |-> {},
     translationStatus |-> "idle", activeStage |-> "none",
     processingState |-> [status |-> "idle", progress |-> 0, currentBatch |-> 0],
     translationIssues |-> createIssueSummary, qualityReport |-> NoReport,
     pauseRequested |-> FALSE, store |-> NoSnapshot, cache |-> <<>>,
     lastEngine |-> "unknown", hub |-> IF b.keys THEN DirectHub ELSE NoKeysHub, call |-> NoCall, pc |-> "idle", kind |-> "none", cl |-> NoClosure,
     w |-> NoLocals, backend |-> b, guarded |-> NoGuard,
     strings |-> NoStrings, hist |-> NoHist(0)]

\* lines 411-429
runQualityCheck(s) ==
    [s EXCEPT !.qualityReport =
        runQualityChecks(s.data, IF Len(s.processedData) > 0 THEN s.processedData ELSE s.data)]

\* lines 440-458
fixedRow(original, row, lang) ==
    LET polished == applyPostprocessRow(original, row, lang)
    IN  [k \in DOMAIN polished |->
            IF shouldLockCell(k, original[k]) /\ IsString(original[k]) THEN original[k]
            ELSE IF IsString(polished[k]) /\ hasSpacingIssue(polished[k])
            THEN polishTranslation(IF IsString(original[k]) THEN original[k] ELSE EmptyText,
                                   polished[k])
            ELSE polished[k]]

\* lines 431-471
applyQualityFixes(s) ==
    LET fixed == [r \in 1..Len(s.processedData) |->
                    fixedRow(s.data[r], s.processedData[r], s.targetLang)]
        flags == IF Len(s.translatedFlags) = Len(fixed) THEN s.translatedFlags
                 ELSE [r \in 1..Len(fixed) |-> TRUE]
        s1 == refreshTranslationIssues(s, fixed, s.missingRowIndices)
    IN  persistProgress([s1 EXCEPT !.processedData = fixed,
                                   !.translatedFlags = flags,
                                   !.qualityReport = runQualityChecks(s.data, fixed)],
                        fixed, flags, s1.missingRowIndices)

\* a handler is started by a click: it captures the state of that render
Begin(s, scenario) ==
    [s EXCEPT !.cl = Closure(s),
              !.hist = [NoHist(s.hist.ops + 1) EXCEPT !.scenario = scenario]]

\* the points at which the handler in flight waits for the network or a timer
Waiting == pc \in {"inflight", "delay", "retryInflight"}

-----------------------------------------------------------------------------
(* The deterministic services of the second specification *)

SanText == <<"ZH", "TKN0">>     \* RowA.text as it is sent

\* the service of the first specification answers as it likes
AnyBackend(st) ==
    [det |-> FALSE, keys |-> TRUE, style |-> st, echo |-> {}, drop |-> {}, leak |-> {},
     fail |-> {}, reject |-> {}]

\* the environment holds no key of any backend
NoKeysBackend == [AnyBackend("ENsp") EXCEPT !.keys = FALSE]

DetBackends ==
    {[det |-> TRUE, keys |-> TRUE, style |-> st, echo |-> e, drop |-> d, leak |-> l,
      fail |-> f, reject |-> rj] :
        st \in {"ENsp"},
        e \in {{}, {SanText}},
        d \in {{}, {<<"ZHG">>}},
        l \in {{}, {SanText}},
        f \in {{}, {sanitizedRow(RowB, "English", "full")}},
        rj \in {{}, {<<sanitizedRow(RowA, "English", "full"),
                       sanitizedRow(RowB, "English", "full")>>}}}

-----------------------------------------------------------------------------
(* Initial states *)

Init == \E b \in {AnyBackend("ENsp"), NoKeysBackend} : Holds(Constructed(b))

InitDet == \E b \in DetBackends : Holds(Constructed(b))

-----------------------------------------------------------------------------
(* Actions.  One handler is in flight at a time: a run, a resume, a retry   *)
(* or a quality handler is started only when none is waiting (pc = "idle"). *)

\* the language selector, before a file is chosen
SetTargetLang ==
    /\ pc = "idle" /\ data = <<>>
    /\ \E lang \in TargetLangs : lang # targetLang /\ Apply([Cur EXCEPT !.targetLang = lang])

\* the strategy buttons, before a file is chosen
SetTranslationMode ==
    /\ pc = "idle" /\ data = <<>>
    /\ \E mode \in Modes : mode # translationMode /\ Apply([Cur EXCEPT !.translationMode = mode])

\* handleFileUpload: the sheet is chosen (again)
Upload ==
    /\ pc = "idle"
    /\ processingState.status # "processing"
    /\ data = <<>> \/ hist.ops < MaxOps
    /\ \E sheet \in IF data = <<>> THEN Sheets ELSE {data} :
            Apply(Ingest([Cur EXCEPT !.hist = IF data = <<>>
                                              THEN [NoHist(0) EXCEPT !.scenario = "start"]
                                              ELSE NoHist(hist.ops + 1)],
                         sheet))

\* the page is reloaded while a sheet is loaded, and the same sheet is chosen
\* again with the same settings: the handler in flight and the hub are gone
Reload ==
    /\ data # <<>>
    /\ pc = "idle" \/ Waiting
    /\ hist.ops < MaxOps
    /\ Apply(Ingest([Constructed(backend) EXCEPT !.targetLang = targetLang,
                                                 !.translationMode = translationMode,
                                                 !.store = store,
                                                 !.hist = NoHist(hist.ops + 1)],
                    data))

\* Run Global Translation
RunFresh ==
    /\ pc = "idle" /\ data # <<>> /\ translationStatus # "running"
    /\ hist.ops < MaxOps
    /\ Apply(StartRun(Begin(Cur, IF hist.scenario = "start" THEN "fresh" ELSE "other"),
                      "fresh"))

\* the Resume button
Resume ==
    /\ pc = "idle" /\ translationStatus = "paused" /\ activeStage = "none"
    /\ hist.ops < MaxOps
    /\ Apply(StartRun(Begin(Cur, IF hist.scenario = "fresh" THEN "resumed" ELSE "other"),
                      "resume"))

\* the Pause button
Pause ==
    /\ translationStatus = "running" /\ activeStage = "translate"
    /\ ~pauseRequested
    /\ Apply([Cur EXCEPT !.pauseRequested = TRUE])

\* the hub call of the batch in flight settles
HubReturnStep ==
    /\ pc = "inflight"
    /\ \E out \in Outcomes(backend, batchRequest(Cur, w.i)) : Apply(HubReturn(Cur, out))

\* the timer between two batches fires
DelayStep ==
    /\ pc = "delay"
    /\ Apply(DelayDone(Cur))

\* the run goes on with auditTranslation
AuditStep ==
    /\ pc = "audit"
    /\ Apply(Audit(Cur))

\* the hub call of the retry batch in flight settles
RetryReturnStep ==
    /\ pc = "retryInflight"
    /\ \E out \in Outcomes(backend, retryRequest(Cur)) : Apply(RetryReturn(Cur, out))

\* Retry Missing Cells
RetryMissing ==
    /\ pc = "idle" /\ data # <<>> /\ translationStatus # "running"
    /\ translationIssues.rowIndices \cup missingRowIndices # {}
    /\ hist.ops < MaxOps
    /\ Apply(StartRetryMissing(Begin(Cur, "other"),
                               translationIssues.rowIndices \cup missingRowIndices,
                               <<>>, FALSE))

\* Retry Placeholder Cells
RetryPlaceholderCells ==
    /\ pc = "idle" /\ translationStatus # "running"
    /\ qualityReport.present
    /\ qualityReport.totals.placeholderCells > 0
    /\ hist.ops < MaxOps
    /\ Apply(StartRetryCells(Begin(Cur, "other")))

\* Run Quality Check
QualityCheck ==
    /\ pc = "idle"
    /\ data # <<>>
    /\ qualityReport # runQualityCheck(Cur).qualityReport
    /\ Apply(runQualityCheck(Cur))

\* Apply Cleanup
QualityFix ==
    /\ pc = "idle"
    /\ Len(processedData) > 0
    /\ hist.ops < MaxOps
    /\ Apply(applyQualityFixes([Cur EXCEPT !.hist = NoHist(hist.ops + 1)]))

Next ==
    \/ SetTargetLang
    \/ SetTranslationMode
    \/ Upload
    \/ Reload
    \/ RunFresh
    \/ Resume
    \/ Pause
    \/ HubReturnStep
    \/ DelayStep
    \/ AuditStep
    \/ RetryReturnStep
    \/ RetryMissing
    \/ RetryPlaceholderCells
    \/ QualityCheck
    \/ QualityFix

Spec == Init /\ [][Next]_vars

SpecDet == InitDet /\ [][Next]_vars

\* a hub call settles (the fetch resolves or rejects), the timer between two
\* batches fires, and the continuation of an awaited call runs
NextRun ==
    \/ Upload
    \/ RunFresh
    \/ Resume
    \/ Pause
    \/ HubReturnStep
    \/ DelayStep
    \/ AuditStep
    \/ RetryReturnStep

\* Weak fairness of the four continuations.  Each is enabled exactly at its
\* own value of pc (its guard) and every one of its steps changes pc or w, so
\* WF_vars(A) is written with ENABLED <<A>>_vars spelled out as that guard.
SpecLive ==
    /\ Init /\ [][NextRun]_vars
    /\ ([]<>(pc # "inflight") \/ []<><<HubReturnStep>>_vars)
    /\ ([]<>(pc # "delay") \/ []<><<DelayStep>>_vars)
    /\ ([]<>(pc # "audit") \/ []<><<AuditStep>>_vars)
    /\ ([]<>(pc # "retryInflight") \/ []<><<RetryReturnStep>>_vars)

-----------------------------------------------------------------------------
(* A document whose second batch begins with the same two records as its    *)
(* first.  XLSX.utils.sheet_to_json (part_006 line 44) leaves an empty cell *)
(* out of its row, so rows of one sheet differ in their keys: only the last *)
(* row of this document has a note.                                          *)

RowS == [id |-> NumCell, text |-> <<"SYM">>]
RowZ == [id |-> NumCell, text |-> <<"SYM">>, note |-> <<"ZH">>]

SheetDup == <<RowS, RowS, RowS, RowS, RowS, RowS, RowS, RowZ>>

\* a service that answers every request with a RecordSet of the same length in
\* which every translatable cell is translated and every placeholder is echoed
WellBehaved ==
    [det |-> TRUE, keys |-> TRUE, style |-> "ENsp", echo |-> {}, drop |-> {}, leak |-> {},
     fail |-> {}, reject |-> {}]

\* the component after this document has been chosen
InitDup ==
    \E b \in {WellBehaved, AnyBackend("ENsp")} :
        Holds(Ingest([Constructed(b) EXCEPT !.hist = [NoHist(0) EXCEPT !.scenario = "start"]],
                     SheetDup))

SpecDup == InitDup /\ [][NextRun]_vars

-----------------------------------------------------------------------------
(* The snapshot load effect (part_008 lines 326-362) over the snapshots an  *)
(* earlier session may have left under the document's identity: of fewer,   *)
(* as many or more rows than the document, with flags of the records'       *)
(* length or, in the older format, without flags.                           *)

RowDone == [id |-> NumCell, text |-> <<"EN">>, note |-> EmptyText]

SnapshotLengths == {NumRows - 2, NumRows, NumRows + 1}

Snapshots ==
    {[records |-> [r \in 1..k |-> RowDone],
      translatedFlags |-> IF withFlags THEN [r \in 1..k |-> r <= done] ELSE <<>>,
      missingRows |-> {}] :
        k \in SnapshotLengths, done \in {NumRows - 4, NumRows + 1}, withFlags \in BOOLEAN}

\* An earlier session on the sheet: a fresh run is paused during its first
\* batch, ...
PausedRuns ==
    LET loaded == Ingest([Constructed(AnyBackend("ENsp")) EXCEPT
                              !.hist = [NoHist(0) EXCEPT !.scenario = "start"]], Sheet)
        running == [StartRun(Begin(loaded, "fresh"), "fresh") EXCEPT !.pauseRequested = TRUE]
        returned == {HubReturn(running, out) :
                        out \in Outcomes(running.backend, batchRequest(running, running.w.i))}
    IN  {Settle(DelayDone(s)) : s \in {r \in returned : r.pc = "delay"}}

\* ... the quality check finds a leaked placeholder, and Retry Placeholder
\* Cells is run to its end
CellRetries ==
    LET checked == {runQualityCheck(s) : s \in {p \in PausedRuns : p.pc = "idle"}}
        started == {StartRetryCells(Begin(s, "other")) :
                        s \in {c \in checked : c.qualityReport.totals.placeholderCells > 0}}
    IN  UNION {{Settle(RetryReturn(s, out)) : out \in Outcomes(s.backend, retryRequest(s))} :
                  s \in {c \in started : c.pc = "retryInflight"}}

\* the snapshots that session leaves in which a row flagged complete holds an
\* untranslated cell
LeftSnapshots ==
    {s.store : s \in {f \in CellRetries :
        /\ f.pc = "idle"
        /\ \E r \in 1..Len(f.store.records) :
              /\ f.store.translatedFlags[r]
              /\ detectUntranslatedCells(f.store.records[r], f.targetLang) # {}}}

InitLoad ==
    \E snapshot \in Snapshots \cup LeftSnapshots :
        Holds([Constructed(AnyBackend("ENsp")) EXCEPT !.store = snapshot])

SpecLoad == InitLoad /\ [][NextRun]_vars

-----------------------------------------------------------------------------
(* The handlers of a session in which a quality report is on the screen: a  *)
(* fresh run of the sheet has ended and Run Quality Check has found a       *)
(* leaked placeholder.  runTranslation leaves the report as it is (only an  *)
(* upload clears it, part_008 line 252), so the report outlives later runs. *)

\* the continuations of a handler that waits
Continuations(s) ==
    CASE s.pc = "inflight" ->
            {HubReturn(s, out) : out \in Outcomes(s.backend, batchRequest(s, s.w.i))}
      [] s.pc = "delay" -> {DelayDone(s)}
      [] s.pc = "audit" -> {Audit(s)}
      [] s.pc = "retryInflight" ->
            {RetryReturn(s, out) : out \in Outcomes(s.backend, retryRequest(s))}
      [] OTHER -> {s}

\* the states the handlers in flight pass through, each visited once
RECURSIVE HandlersReach(_, _)
HandlersReach(seen, frontier) ==
    IF frontier = {} THEN seen
    ELSE LET waiting == {s \in frontier : s.pc # "idle"}
             next == UNION {Continuations(s) : s \in waiting}
         IN  HandlersReach(seen \cup frontier, next \ (seen \cup frontier))

\* the handlers of the states S run to their ends
HandlersEnded(S) ==
    {Settle(s) : s \in {r \in HandlersReach({}, S) : r.pc = "idle"}}

\* the sheet is chosen, Run Global Translation runs to its end, and Run
\* Quality Check reports a leaked placeholder
ReportedRuns ==
    LET loaded == Ingest([Constructed(AnyBackend("ENsp")) EXCEPT
                              !.hist = [NoHist(0) EXCEPT !.scenario = "start"]], Sheet)
        ended == HandlersEnded({StartRun(Begin(loaded, "fresh"), "fresh")})
    IN  {c \in {runQualityCheck(s) : s \in ended} :
            c.qualityReport.totals.placeholderCells > 0}

InitReport ==
    \E s \in ReportedRuns : Holds([s EXCEPT !.hist = NoHist(0)])

NextReport ==
    \/ RunFresh
    \/ Resume
    \/ Pause
    \/ HubReturnStep
    \/ DelayStep
    \/ AuditStep
    \/ RetryReturnStep
    \/ RetryMissing
    \/ RetryPlaceholderCells
    \/ QualityFix

SpecReport == InitReport /\ [][NextReport]_vars

-----------------------------------------------------------------------------
(* The stages of the workflow.  Run Multi-AI Validation holds the stage     *)
(* while it waits for its judges; the translation status is not 'running'   *)
(* then, so Run Global Translation stays enabled (part_008 line 1857).      *)
(* The rules the validation needs come from Run Combination Check, which    *)
(* any loaded sheet allows.                                                  *)

\* lines 1181-1191: runAiValidation up to its wait
RunAiValidation ==
    /\ pc = "idle" /\ data # <<>> /\ translationStatus # "running"
    /\ activeStage = "none"
    /\ Apply([Cur EXCEPT !.activeStage = "aiValidate"])

\* lines 1602-1613: the judges answer or fail; runStage's finally
AiValidationReturn ==
    /\ activeStage = "aiValidate"
    /\ Apply([Cur EXCEPT !.activeStage = "none"])

\* the sheet has been chosen, and a fresh run of it may have been paused
InitStage ==
    \E s \in PausedRuns \cup
              {Ingest([Constructed(AnyBackend("ENsp")) EXCEPT
                           !.hist = [NoHist(0) EXCEPT !.scenario = "start"]], Sheet)} :
        Holds([s EXCEPT !.hist = NoHist(0)])

NextStage ==
    \/ RunAiValidation
    \/ AiValidationReturn
    \/ RunFresh
    \/ Pause
    \/ HubReturnStep
    \/ DelayStep
    \/ AuditStep
    \/ RetryReturnStep

SpecStage == InitStage /\ [][NextStage]_vars

-----------------------------------------------------------------------------
(* A sheet every row of which needs translation, so that a targeted retry   *)
(* of all its rows has a second batch; the hub holds the OpenRouter and     *)
(* DeepSeek keys, with or without the Gemini key.                           *)

RowT == [id |-> NumCell, text |-> <<"ZH">>]

SheetAll == [r \in 1..NumRows |-> RowT]

AllKeysHub == [proxy |-> FALSE, openRouter |-> TRUE, hasGeminiKey |-> TRUE]

InitRetry ==
    \E h \in {DirectHub, AllKeysHub} :
        Holds(Ingest([Constructed(AnyBackend("ENsp")) EXCEPT
                          !.hub = h, !.hist = [NoHist(0) EXCEPT !.scenario = "start"]],
                     SheetAll))

NextRetry ==
    \/ RunFresh
    \/ Resume
    \/ Pause
    \/ HubReturnStep
    \/ DelayStep
    \/ AuditStep
    \/ RetryReturnStep
    \/ RetryMissing

SpecRetry == InitRetry /\ [][NextRetry]_vars

-----------------------------------------------------------------------------
(* services/translationHub.ts: translateBatch step by step.  The second     *)
(* specification drives the hub alone, in proxy mode and in direct mode     *)
(* with and without the OpenRouter and Gemini keys.                         *)

DEFAULT_RETRIES == 2

MaxCalls == 3       \* translateBatch calls in one behaviour

\* `null` where a record is expected
NullRecord == [null |-> TRUE]

IsObject(record) == "null" \notin DOMAIN record

HubRow1 == [text |-> <<"ZH">>]
HubRow2 == [text |-> <<"ZHG">>]

\* two requests of different lengths whose first two records are the same
HubRequests ==
    {[records |-> recs, targetLang |-> "English", model |-> m] :
        recs \in {<<HubRow1, HubRow2>>, <<HubRow1, HubRow2, HubRow1>>},
        m \in {"auto", "openrouter", "deepseek", "gemini"}}

HubConfigs ==
    {[proxy |-> TRUE, openRouter |-> FALSE, hasGeminiKey |-> FALSE]} \cup
    {[proxy |-> FALSE, openRouter |-> o, hasGeminiKey |-> g] : o \in BOOLEAN, g \in BOOLEAN}

\* what a service (or the proxy endpoint) may answer: it raises, or it returns
\* an array: one row per record, one row short, or with null for a row
ServiceAnswers(req) ==
    LET full == FullResponse(req.records, req.targetLang, "EN")
    IN  {[raise |-> TRUE, records |-> <<>>],
         [raise |-> FALSE, records |-> full],
         [raise |-> FALSE, records |-> SubSeq(full, 1, Len(full) - 1)],
         [raise |-> FALSE, records |-> [full EXCEPT ![1] = NullRecord]]}

appVars == <<data, targetLang, translationMode, enginePreference, processedData,
             translatedFlags, missingRowIndices, translationStatus, activeStage,
             processingState, translationIssues, qualityReport, pauseRequested,
             store, pc, kind, cl, w, backend, guarded, strings, hist>>

\* the backend call in flight has raised
Failed ==
    [call EXCEPT !.tried = Append(@, [backend |-> call.at, raised |-> TRUE, records |-> <<>>])]

\* the backend call in flight has returned `records`
Answered(records) ==
    [call EXCEPT !.tried = Append(@, [backend |-> call.at, raised |-> FALSE,
                                       records |-> records])]

\* the call settles: the promise is fulfilled with `value`, or rejected
Returned(c, value) == [c EXCEPT !.at = "none", !.outcome = "returned", !.value = value]
Raised(c) == [c EXCEPT !.at = "none", !.outcome = "raised", !.value = <<>>]

\* the result of the call is stored: `engine` has produced it
ProducedBy(c, engine) ==
    [c EXCEPT !.producer = CachePut(@, CacheKey(c.req), engine),
              !.computedFor = CachePut(@, CacheKey(c.req), c.req.records)]

\* lines 116-138 and 166-184: up to the first await
HubTranslate(req) ==
    /\ pc = "idle" /\ call.at = "none"
    /\ call.calls < MaxCalls
    /\ LET started == [req |-> req, at |-> "none", attempt |-> 0, outcome |-> "none",
                       value |-> <<>>, calls |-> call.calls + 1, tried |-> <<>>,
                       producer |-> call.producer, computedFor |-> call.computedFor]
           to(at) == [started EXCEPT !.at = at]
           thrown == [started EXCEPT !.outcome = "raised"]
       IN  call' =
             IF CacheHas(cache, CacheKey(req))
             THEN [started EXCEPT !.outcome = "returned", !.value = cache[CacheKey(req)]]
             ELSE IF hub.proxy THEN to("proxy")
             ELSE IF req.model = "openrouter"
                  THEN (IF hub.openRouter THEN to("openrouter") ELSE thrown)
             ELSE IF req.model = "gemini"
                  THEN (IF hub.hasGeminiKey THEN to("gemini") ELSE thrown)
             ELSE IF req.model = "deepseek" THEN to("deepseek")
             ELSE IF hub.openRouter THEN to("openrouter")
             ELSE to("deepseek")
    /\ UNCHANGED <<cache, lastEngine, hub>>
    /\ UNCHANGED appVars

\* a hub that stores the result before it validates it
ValidatedLate(translated, engine) ==
    /\ lastEngine' = engine
    /\ cache' = CachePut(cache, CacheKey(call.req), translated)
    /\ IF Len(translated) # Len(call.req.records)
          \/ \E j \in 1..Len(translated) : ~IsObject(translated[j])
       THEN call' = Raised(Answered(translated))
       ELSE call' = ProducedBy(Returned(Answered(translated), translated), engine)

\* lines 212-225: the result of a backend is validated, cached and returned
Validated(translated, engine) ==
    /\ lastEngine' = engine
    /\ IF Len(translated) # Len(call.req.records)
          \/ \E j \in 1..Len(translated) : ~IsObject(translated[j])
       THEN call' = Raised(Answered(translated)) /\ cache' = cache
       ELSE /\ call' = ProducedBy(Returned(Answered(translated), translated), engine)
            /\ cache' = CachePut(cache, CacheKey(call.req), translated)

\* proxyService.ts: the engines the endpoint may have used; its payload names
\* the engine or is a bare array, which leaves lastEngine as it was
ProxyEngines == {"openrouter", "deepseek", "gemini"}

\* lines 60-80 and 31-43: getCapabilities(); the proxy's engines are those of
\* an environment without VITE_PROXY_ENGINES
Capabilities ==
    IF hub.proxy THEN [openrouter |-> TRUE, deepseek |-> FALSE, gemini |-> FALSE]
    ELSE [openrouter |-> hub.openRouter, deepseek |-> TRUE, gemini |-> hub.hasGeminiKey]

\* lines 128-138: the proxy answers; its array is cached and returned as it is
HubProxyReturn ==
    /\ call.at = "proxy"
    /\ \E out \in ServiceAnswers(call.req) :
          IF out.raise
          THEN call' = Raised(Failed) /\ UNCHANGED <<cache, lastEngine>>
          ELSE /\ cache' = CachePut(cache, CacheKey(call.req), out.records)
               /\ \E engine \in ProxyEngines, named \in BOOLEAN :
                     /\ lastEngine' = IF named THEN engine ELSE lastEngine
                     /\ call' = ProducedBy(Returned(Answered(out.records), out.records),
                                           engine)
    /\ UNCHANGED hub
    /\ UNCHANGED appVars

\* lines 159-172 and 184-192: OpenRouter answers
HubOpenRouterReturn ==
    /\ call.at = "openrouter"
    /\ \E out \in ServiceAnswers(call.req) :
          IF out.raise
          THEN /\ call' = IF call.req.model = "openrouter" THEN Raised(Failed)
                          ELSE [Failed EXCEPT !.at = "deepseek", !.attempt = 0]
               /\ UNCHANGED <<cache, lastEngine>>
          ELSE Validated(out.records, "openrouter")
    /\ UNCHANGED hub
    /\ UNCHANGED appVars

\* as HubDeepseekReturn, but the first failure already falls through to Gemini
HubDeepseekReturnOnce ==
    /\ call.at = "deepseek"
    /\ \E out \in ServiceAnswers(call.req) :
          IF out.raise
          THEN /\ call' = IF call.req.model = "deepseek" THEN Raised(Failed)
                          ELSE IF hub.hasGeminiKey THEN [Failed EXCEPT !.at = "gemini"]
                          ELSE Raised(Failed)
               /\ UNCHANGED <<cache, lastEngine>>
          ELSE Validated(out.records, "deepseek")
    /\ UNCHANGED hub
    /\ UNCHANGED appVars

\* lines 140-156, 179-181 and 193-209: DeepSeek answers, with its retries
HubDeepseekReturn ==
    /\ call.at = "deepseek"
    /\ \E out \in ServiceAnswers(call.req) :
          IF out.raise
          THEN /\ call' = IF call.attempt < DEFAULT_RETRIES
                          THEN [Failed EXCEPT !.attempt = call.attempt + 1]
                          ELSE IF call.req.model = "deepseek" THEN Raised(Failed)
                          ELSE IF hub.hasGeminiKey THEN [Failed EXCEPT !.at = "gemini"]
                          ELSE Raised(Failed)
               /\ UNCHANGED <<cache, lastEngine>>
          ELSE Validated(out.records, "deepseek")
    /\ UNCHANGED hub
    /\ UNCHANGED appVars

\* lines 157-158, 173-178 and 203-204: Gemini answers
HubGeminiReturn ==
    /\ call.at = "gemini"
    /\ \E out \in ServiceAnswers(call.req) :
          IF out.raise
          THEN call' = Raised(Failed) /\ UNCHANGED <<cache, lastEngine>>
          ELSE Validated(out.records, "gemini")
    /\ UNCHANGED hub
    /\ UNCHANGED appVars

InitHub ==
    \E cfg \in HubConfigs :
        Holds([Constructed(AnyBackend("ENsp")) EXCEPT !.hub = cfg])

NextHub ==
    \/ \E req \in HubRequests : HubTranslate(req)
    \/ HubProxyReturn
    \/ HubOpenRouterReturn
    \/ HubDeepseekReturn
    \/ HubGeminiReturn

SpecHub == InitHub /\ [][NextHub]_vars

-----------------------------------------------------------------------------
(* The token guard on its own: a text is guarded for the request, the       *)
(* service returns the sanitized text as it got it, and the answer is       *)
(* restored with the placeholders of the guard.                             *)

MaxLen == 3         \* pieces of a guarded text
MaxFormats == 11    \* format specifiers of a string resource

GuardPieces == {"ZH", "TOK", "CODE", "PCT", "TKN1", "ID1"}

RECURSIVE Texts(_)
Texts(n) ==
    IF n = 0 THEN {EmptyText}
    ELSE Texts(n - 1) \cup {Append(t, p) : t \in {u \in Texts(n - 1) : Len(u) = n - 1},
                                           p \in GuardPieces}

\* a resource that is a run of format specifiers
FormatRun(n) == [i \in 1..n |-> "PCT"]

GuardTexts == Texts(MaxLen) \cup {FormatRun(n) : n \in 1..MaxFormats}

\* the state of the table translator
tableVars == <<data, targetLang, translationMode, enginePreference, processedData,
               translatedFlags, missingRowIndices, translationStatus, activeStage,
               processingState, translationIssues, qualityReport, pauseRequested,
               store, pc, kind, cl, w, backend, hist>>

\* part_000 lines 12-42: the guard of the table and document translators
GuardTranslation(text) ==
    /\ guarded.stage = "none"
    /\ guarded' = [NoGuard EXCEPT !.stage = "guarded", !.guard = "translation",
                       !.text = text,
                       !.sanitized = guardTranslationTokens(text).sanitized,
                       !.placeholders = guardTranslationTokens(text).placeholders]
    /\ UNCHANGED <<cache, lastEngine, hub, call, strings>>
    /\ UNCHANGED tableVars

\* stringResources.ts lines 57-71: the guard of the string-resource translator
GuardStringResource(text) ==
    /\ guarded.stage = "none"
    /\ guarded' = [NoGuard EXCEPT !.stage = "guarded", !.guard = "stringResource",
                       !.text = text,
                       !.sanitized = guardStringResourceTokens(text).sanitized,
                       !.placeholders = guardStringResourceTokens(text).placeholders]
    /\ UNCHANGED <<cache, lastEngine, hub, call, strings>>
    /\ UNCHANGED tableVars

\* part_000 lines 44-47: the sanitized text comes back and is restored
RestoreTranslation ==
    /\ guarded.stage = "guarded" /\ guarded.guard = "translation"
    /\ guarded' = [guarded EXCEPT !.stage = "restored",
                       !.restored = restoreTranslationTokens(guarded.sanitized,
                                                             guarded.placeholders)]
    /\ UNCHANGED <<cache, lastEngine, hub, call, strings>>
    /\ UNCHANGED tableVars

\* stringResources.ts lines 73-86
RestoreStringResource ==
    /\ guarded.stage = "guarded" /\ guarded.guard = "stringResource"
    /\ guarded' = [guarded EXCEPT !.stage = "restored",
                       !.restored = restoreStringResourceTokens(guarded.sanitized,
                                                                guarded.placeholders)]
    /\ UNCHANGED <<cache, lastEngine, hub, call, strings>>
    /\ UNCHANGED tableVars

\* the next text
GuardDone ==
    /\ guarded.stage = "restored"
    /\ guarded' = NoGuard
    /\ UNCHANGED <<cache, lastEngine, hub, call, strings>>
    /\ UNCHANGED tableVars

InitGuard == Holds(Constructed(AnyBackend("ENsp")))

NextGuard ==
    \/ \E text \in GuardTexts : GuardTranslation(text)
    \/ \E text \in GuardTexts : GuardStringResource(text)
    \/ RestoreTranslation
    \/ RestoreStringResource
    \/ GuardDone

SpecGuard == InitGuard /\ [][NextGuard]_vars

-----------------------------------------------------------------------------
(* The string-resource translator (part_008 lines 706-875): one resource    *)
(* line is guarded and handed to the hub once per target language, all      *)
(* calls at once; the outputs are built when every call has settled.        *)

STRING_TARGET_LANGS ==
    {"English", "Spanish", "French", "German", "Italian", "Russian", "Portuguese"}

MaxStringRuns == 1  \* requests of the string translator in one behaviour

\* the contents of the resource line
StringInputs == {<<"ZH">>, <<"ZH", "TOK">>, <<"ZH", "PCT">>, <<"TOK">>}

stringRequest(payload, lang) ==
    [records |-> payload, targetLang |-> lang, model |-> enginePreference]

\* lines 756-778: buildOutput for the one entry of the input
buildOutput(translatedBatch, lang) ==
    LET candidate == IF "content" \in DOMAIN translatedBatch[1]
                        /\ IsString(translatedBatch[1].content)
                     THEN translatedBatch[1].content ELSE strings.input
        restored == restoreStringResourceTokens(candidate, strings.placeholders)
        polished == polishTranslation(strings.input, fixSpacingArtifacts(restored))
    IN  normalizeTerminology([content |-> polished], lang).content

\* lines 706-795: the click on Translate
translateStringResources(input) ==
    /\ strings.stringStatus # "running"
    /\ strings.runs < MaxStringRuns
    /\ IF ~containsChinese(input)
       THEN strings' = [NoStrings EXCEPT !.stringStatus = "completed", !.input = input,
                            !.stringOutputs = [lang \in STRING_TARGET_LANGS |-> input],
                            !.runs = strings.runs + 1]
       ELSE LET guard == guardStringResourceTokens(input)
                payload == <<[content |-> guard.sanitized]>>
                hit(lang) == CacheHas(cache, CacheKey(stringRequest(payload, lang)))
            IN  strings' = [NoStrings EXCEPT !.stringStatus = "running", !.input = input,
                                !.payload = payload, !.placeholders = guard.placeholders,
                                !.awaiting = {lang \in STRING_TARGET_LANGS : ~hit(lang)},
                                !.results = [lang \in {l \in STRING_TARGET_LANGS : hit(l)} |->
                                    cache[CacheKey(stringRequest(payload, lang))]],
                                !.runs = strings.runs + 1]
    /\ UNCHANGED <<cache, lastEngine, hub, call, guarded>>
    /\ UNCHANGED tableVars

\* lines 797-875: every call has settled; the outputs are published
stringsSettled(awaiting, results) ==
    IF awaiting # {}
    THEN [strings EXCEPT !.awaiting = awaiting, !.results = results]
    ELSE [strings EXCEPT
            !.awaiting = {}, !.results = results,
            !.stringOutputs = [lang \in STRING_TARGET_LANGS |->
                IF lang \in DOMAIN results THEN buildOutput(results[lang], lang)
                ELSE EmptyText],
            !.stringStatus = IF DOMAIN results = STRING_TARGET_LANGS THEN "completed"
                             ELSE "error"]

\* lines 786-795: the hub call of one language settles
StringReturn(lang) ==
    /\ strings.stringStatus = "running" /\ lang \in strings.awaiting
    /\ \E out \in {[raise |-> TRUE, records |-> <<>>],
                   [raise |-> FALSE,
                    records |-> FullResponse(strings.payload, lang, "ENsp")]} :
          IF out.raise
          THEN /\ strings' = stringsSettled(strings.awaiting \ {lang}, strings.results)
               /\ UNCHANGED <<cache, lastEngine>>
          ELSE /\ strings' = stringsSettled(strings.awaiting \ {lang},
                                 [l \in DOMAIN strings.results \cup {lang} |->
                                     IF l = lang THEN out.records ELSE strings.results[l]])
               /\ cache' = CachePut(cache, CacheKey(stringRequest(strings.payload, lang)),
                                    out.records)
               /\ lastEngine' = enginePreference
    /\ UNCHANGED <<hub, call, guarded>>
    /\ UNCHANGED tableVars

InitStrings == Holds(Constructed(AnyBackend("ENsp")))

NextStrings ==
    \/ \E input \in StringInputs : translateStringResources(input)
    \/ \E lang \in STRING_TARGET_LANGS : StringReturn(lang)

SpecStrings == InitStrings /\ [][NextStrings]_vars

-----------------------------------------------------------------------------
(* The snapshot store (part_002): localStorage as a map from key strings to *)
(* JSON texts.  A string is the sequence of its pieces; "_" is a piece of   *)
(* its own, and a file name may hold any piece, a language's name included. *)
(* In this specification `store` is the whole of localStorage.              *)

STORAGE_PREFIX == "poct_translation_progress_"

\* part_008 lines 1784-1791: the options of the language selector
TargetLanguages ==
    {"Chinese", "English", "Spanish", "French", "German", "Italian", "Russian",
     "Portuguese"}

\* the languages the store is exercised with
StoreLangs == {"English", "Russian"}

\* an absent or empty language argument
NoLang == ""

\* part_008 line 250: file name, size and modification time; null before the
\* first upload
FileIds == {Null, <<"a">>, <<"a", "_", "English">>}

\* lines 19-20
getKey(fileId, lang) == <<STORAGE_PREFIX>> \o fileId \o <<"_", lang>>

\* what persistProgress may hand over
Payloads ==
    {[records |-> <<RowDone>>, translatedFlags |-> <<TRUE>>, missingRows |-> {}],
     [records |-> <<Sheet[1], Sheet[2]>>, translatedFlags |-> <<FALSE, FALSE>>,
      missingRows |-> {2}]}

\* JSON.stringify of a snapshot object, and of the bare record array that an
\* older version stored
Stringify(value) == [json |-> "object", text |-> value]
StringifyArray(records) == [json |-> "array", text |-> records]

\* localStorage.setItem, getItem and removeItem
setItem(storage, key, value) ==
    [k \in DOMAIN storage \cup {key} |-> IF k = key THEN value ELSE storage[k]]

getItem(storage, key) == IF key \in DOMAIN storage THEN storage[key] ELSE Null

removeItem(storage, key) == [k \in DOMAIN storage \ {key} |-> storage[k]]

\* a version of the store that keeps the stored records the payload does not
\* reach
saveTranslationProgressMerged(storage, fileId, lang, payload, accepted) ==
    IF fileId = Null \/ ~accepted THEN storage
    ELSE LET old == getItem(storage, getKey(fileId, lang))
             kept == IF old = Null \/ old.json # "object" THEN <<>>
                     ELSE SubSeq(old.text.records, Len(payload.records) + 1,
                                 Len(old.text.records))
         IN  setItem(storage, getKey(fileId, lang),
                     Stringify([targetLang |-> lang,
                                records |-> payload.records \o kept,
                                translatedFlags |-> payload.translatedFlags,
                                missingRows |-> payload.missingRows]))

\* lines 22-40; `accepted` is FALSE when setItem throws (the quota is
\* exhausted), which the catch clause turns into a warning
saveTranslationProgress(storage, fileId, lang, payload, accepted) ==
    IF fileId = Null \/ ~accepted THEN storage
    ELSE setItem(storage, getKey(fileId, lang),
                 Stringify([targetLang |-> lang,
                            records |-> payload.records,
                            translatedFlags |-> payload.translatedFlags,
                            missingRows |-> payload.missingRows]))

\* lines 42-64
loadTranslationProgress(storage, fileId, lang) ==
    IF fileId = Null THEN Null
    ELSE LET raw == getItem(storage, getKey(fileId, lang))
         IN  IF raw = Null THEN Null
             ELSE IF raw.json = "array"
             THEN [targetLang |-> lang, records |-> raw.text]
             ELSE raw.text

\* startsWith
StartsWith(key, prefix) ==
    Len(key) >= Len(prefix) /\ SubSeq(key, 1, Len(prefix)) = prefix

\* lines 66-84; lang is NoLang when the caller names no language
clearTranslationProgress(storage, fileId, lang) ==
    IF fileId = Null THEN storage
    ELSE IF lang # NoLang THEN removeItem(storage, getKey(fileId, lang))
    ELSE [k \in {key \in DOMAIN storage :
                    ~StartsWith(key, <<STORAGE_PREFIX>> \o fileId \o <<"_">>)} |->
            storage[k]]

\* the last operation on the store and what it returned (history)
NoStoreOp ==
    [op |-> "none", fileId |-> Null, lang |-> NoLang, payload |-> NoSnapshot,
     accepted |-> FALSE, had |-> FALSE, returned |-> Null]

storeFrame ==
    <<data, targetLang, translationMode, enginePreference, processedData,
      translatedFlags, missingRowIndices, translationStatus, activeStage,
      processingState, translationIssues, qualityReport, pauseRequested,
      cache, lastEngine, hub, call, pc, kind, cl, w, backend, guarded, strings>>

\* localStorage as an earlier session may have left it: empty, or with the
\* record array of an older version under one key
InitStore ==
    \E storage \in {<<>>, setItem(<<>>, getKey(<<"a">>, "English"),
                                  StringifyArray(<<RowDone>>))} :
        Holds([Constructed(AnyBackend("ENsp")) EXCEPT !.store = storage,
                                                      !.hist = NoStoreOp])

SaveProgress ==
    \E fileId \in FileIds, lang \in StoreLangs, payload \in Payloads, accepted \in BOOLEAN :
        /\ store' = saveTranslationProgress(store, fileId, lang, payload, accepted)
        /\ hist' = [NoStoreOp EXCEPT !.op = "save", !.fileId = fileId, !.lang = lang,
                                     !.payload = payload, !.accepted = accepted,
                                     !.had = getKey(fileId, lang) \in DOMAIN store]
        /\ UNCHANGED storeFrame

LoadProgress ==
    \E fileId \in FileIds, lang \in StoreLangs :
        /\ hist' = [NoStoreOp EXCEPT !.op = "load", !.fileId = fileId, !.lang = lang,
                                     !.had = getKey(fileId, lang) \in DOMAIN store,
                                     !.returned = loadTranslationProgress(store, fileId, lang)]
        /\ UNCHANGED store
        /\ UNCHANGED storeFrame

ClearProgress ==
    \E fileId \in FileIds, lang \in StoreLangs \cup {NoLang} :
        /\ store' = clearTranslationProgress(store, fileId, lang)
        /\ hist' = [NoStoreOp EXCEPT !.op = "clear", !.fileId = fileId, !.lang = lang,
                                     !.had = getKey(fileId, lang) \in DOMAIN store]
        /\ UNCHANGED storeFrame

NextStore ==
    \/ SaveProgress
    \/ LoadProgress
    \/ ClearProgress

SpecStore == InitStore /\ [][NextStore]_vars

-----------------------------------------------------------------------------
(* runQualityChecks (utils/quality.ts lines 60-163) statement by statement: *)
(* the counters are incremented, the row sets extended and the findings     *)
(* pushed cell by cell, and the row totals are taken from the sets at the   *)
(* end.  Row indexes are those of the source, from 0.                       *)

MaxQualityRows == 2   \* rows of the record lists handed to the quality pass

KeyOrder == <<"id", "text", "note">>

QualityCategories == {"chinese", "placeholders", "idMismatch", "spacing"}

\* the type a finding of the category is pushed with
IssueType(category) == IF category = "placeholders" THEN "placeholder" ELSE category

\* original[rowIndex] || {}
RowOrEmpty(records, rowIndex) ==
    IF rowIndex + 1 <= Len(records) THEN records[rowIndex + 1] ELSE <<>>

\* lines 64-88
NoFindings ==
    [cellsScanned |-> 0,
     cells |-> [category \in QualityCategories |-> 0],
     rows |-> [category \in QualityCategories |-> {}],
     issues |-> [category \in QualityCategories |-> <<>>]]

\* lines 103-113, 115-125, 127-137 and 139-150: one finding is recorded
PushIssue(acc, category, rowIndex, key, value, originalRow) ==
    [acc EXCEPT !.cells[category] = @ + 1,
                !.rows[category] = @ \cup {rowIndex},
                !.issues[category] =
                    Append(@, [rowIndex |-> rowIndex, columnKey |-> key, value |-> value,
                               original |-> IF key \in DOMAIN originalRow
                                               /\ IsString(originalRow[key])
                                            THEN originalRow[key] ELSE EmptyText,
                               type |-> IssueType(category)])]

\* lines 98-151: the body of keys.forEach
ScanCell(acc, rowIndex, key, originalRow, translatedRow) ==
    IF key \notin DOMAIN translatedRow \/ ~IsString(translatedRow[key]) THEN acc
    ELSE LET value == translatedRow[key]
             a0 == [acc EXCEPT !.cellsScanned = @ + 1]
             a1 == IF containsChinese(value)
                   THEN PushIssue(a0, "chinese", rowIndex, key, value, originalRow) ELSE a0
             a2 == IF hasPlaceholder(value)
                   THEN PushIssue(a1, "placeholders", rowIndex, key, value, originalRow) ELSE a1
             a3 == IF hasSpacingIssue(value)
                   THEN PushIssue(a2, "spacing", rowIndex, key, value, originalRow) ELSE a2
         IN  IF /\ key \in DOMAIN originalRow
                /\ shouldLockCell(key, originalRow[key])
                /\ value # originalRow[key]
             THEN PushIssue(a3, "idMismatch", rowIndex, key, value, originalRow)
             ELSE a3

\* lines 91-152: the keys of one row, those of the source row first
RECURSIVE ScanRow(_, _, _, _, _)
ScanRow(acc, rowIndex, j, originalRow, translatedRow) ==
    IF j > Len(KeyOrder) THEN acc
    ELSE ScanRow(IF KeyOrder[j] \in DOMAIN originalRow \cup DOMAIN translatedRow
                 THEN ScanCell(acc, rowIndex, KeyOrder[j], originalRow, translatedRow)
                 ELSE acc,
                 rowIndex, j + 1, originalRow, translatedRow)

\* lines 90-153
RECURSIVE ScanRows(_, _, _, _)
ScanRows(acc, rowIndex, original, translated) ==
    IF rowIndex >= Max(Len(original), Len(translated)) THEN acc
    ELSE ScanRows(ScanRow(acc, rowIndex, 1, RowOrEmpty(original, rowIndex),
                          RowOrEmpty(translated, rowIndex)),
                  rowIndex + 1, original, translated)

\* a report whose row totals are counted finding by finding
QualityScanPerFinding(original, translated) ==
    LET acc == ScanRows(NoFindings, 0, original, translated)
    IN  [present |-> TRUE,
         issues |-> acc.issues,
         totals |-> [cellsScanned |-> acc.cellsScanned,
                     rowsScanned |-> Max(Len(original), Len(translated)),
                     chineseCells |-> acc.cells["chinese"],
                     chineseRows |-> acc.cells["chinese"],
                     placeholderCells |-> acc.cells["placeholders"],
                     placeholderRows |-> acc.cells["placeholders"],
                     idMismatches |-> acc.cells["idMismatch"],
                     idMismatchRows |-> acc.cells["idMismatch"],
                     spacingIssues |-> acc.cells["spacing"],
                     spacingRows |-> acc.cells["spacing"]]]

\* lines 60-163
QualityScan(original, translated) ==
    LET acc == ScanRows(NoFindings, 0, original, translated)
    IN  [present |-> TRUE,
         issues |-> acc.issues,
         totals |-> [cellsScanned |-> acc.cellsScanned,
                     rowsScanned |-> Max(Len(original), Len(translated)),
                     chineseCells |-> acc.cells["chinese"],
                     chineseRows |-> Cardinality(acc.rows["chinese"]),
                     placeholderCells |-> acc.cells["placeholders"],
                     placeholderRows |-> Cardinality(acc.rows["placeholders"]),
                     idMismatches |-> acc.cells["idMismatch"],
                     idMismatchRows |-> Cardinality(acc.rows["idMismatch"]),
                     spacingIssues |-> acc.cells["spacing"],
                     spacingRows |-> Cardinality(acc.rows["spacing"])]]

\* source rows and translated rows of the quality pass: a locked key and a
\* code that locks its cell; cells with several defects at once, a number, a
\* column the source row does not have
QualitySourceRows ==
    {[id |-> <<"CODE">>, text |-> <<"ZH">>],
     [id |-> NumCell, text |-> <<"CODE">>]}

QualityTranslatedRows ==
    {[id |-> <<"CODE">>, text |-> <<"EN">>],
     [id |-> <<"ZH", "TKN0">>, text |-> <<"ZH", "ENsp">>],
     [id |-> NumCell, text |-> <<"TKN0", "ENsp">>, note |-> <<"ZH">>],
     [text |-> <<"ENsp">>]}

SeqsUpTo(S, n) == UNION {[1..k -> S] : k \in 0..n}

InitQuality ==
    \E original \in SeqsUpTo(QualitySourceRows, MaxQualityRows),
       translated \in SeqsUpTo(QualityTranslatedRows, MaxQualityRows) \ {<<>>} :
        Holds([Constructed(AnyBackend("ENsp")) EXCEPT !.data = original,
                                                      !.processedData = translated])

\* the quality pass runs over the two record lists
RunQualityScan ==
    /\ ~qualityReport.present
    /\ qualityReport' = QualityScan(data, processedData)
    /\ UNCHANGED <<data, targetLang, translationMode, enginePreference, processedData,
                   translatedFlags, missingRowIndices, translationStatus, activeStage,
                   processingState, translationIssues, pauseRequested, store, cache,
                   lastEngine, hub, call, pc, kind, cl, w, backend, guarded, strings, hist>>

SpecQuality == InitQuality /\ [][RunQualityScan]_vars

-----------------------------------------------------------------------------
(* The language scores (utils/glossary.ts lines 469-704) over texts that    *)
(* are sequences of words separated by a blank.  Each word of the           *)
(* vocabulary is described by what the regular expressions and the          *)
(* tokenizer of the source make of it.                                      *)

MaxWords == 2   \* words of a text handed to the heuristic

LatinCodes == <<"en", "es", "fr", "de", "it", "pt">>   \* Object.keys(LANGUAGE_HINTS)

\* ascii: has a letter A-Z or a-z (LANGUAGE_DIACRITICS.en); latin: matches
\* LATIN_WORD_REGEX; tokens: what tokenizeLatin yields (lower case, marks
\* stripped, split at non-letters); marks: the languages whose
\* LANGUAGE_DIACRITICS matches; code: upper-case letters and digits only
Vocabulary ==
    [the     |-> [ascii |-> TRUE,  latin |-> TRUE,  tokens |-> <<"the">>,     marks |-> {}, script |-> "latin", code |-> FALSE],
     de      |-> [ascii |-> TRUE,  latin |-> TRUE,  tokens |-> <<"de">>,      marks |-> {}, script |-> "latin", code |-> FALSE],
     aumento |-> [ascii |-> TRUE,  latin |-> TRUE,  tokens |-> <<"aumento">>, marks |-> {}, script |-> "latin", code |-> FALSE],
     und     |-> [ascii |-> TRUE,  latin |-> TRUE,  tokens |-> <<"und">>,     marks |-> {}, script |-> "latin", code |-> FALSE],
     xyz     |-> [ascii |-> TRUE,  latin |-> TRUE,  tokens |-> <<"xyz">>,     marks |-> {}, script |-> "latin", code |-> FALSE],
     el1     |-> [ascii |-> TRUE,  latin |-> TRUE,  tokens |-> <<"el">>,      marks |-> {"es", "fr", "it", "pt"}, script |-> "latin", code |-> FALSE],
     e1      |-> [ascii |-> FALSE, latin |-> TRUE,  tokens |-> <<"e">>,       marks |-> {"es", "fr", "it", "pt"}, script |-> "latin", code |-> FALSE],
     ss      |-> [ascii |-> FALSE, latin |-> TRUE,  tokens |-> <<>>,          marks |-> {"de"}, script |-> "latin", code |-> FALSE],
     lstroke |-> [ascii |-> FALSE, latin |-> TRUE,  tokens |-> <<>>,          marks |-> {}, script |-> "latin", code |-> FALSE],
     ABC     |-> [ascii |-> TRUE,  latin |-> TRUE,  tokens |-> <<"abc">>,     marks |-> {}, script |-> "latin", code |-> TRUE],
     n12     |-> [ascii |-> FALSE, latin |-> FALSE, tokens |-> <<>>,          marks |-> {}, script |-> "none", code |-> TRUE],
     arrow   |-> [ascii |-> FALSE, latin |-> FALSE, tokens |-> <<>>,          marks |-> {}, script |-> "symbol", code |-> FALSE],
     zh      |-> [ascii |-> FALSE, latin |-> FALSE, tokens |-> <<>>,          marks |-> {}, script |-> "cjk", code |-> FALSE],
     ru      |-> [ascii |-> FALSE, latin |-> FALSE, tokens |-> <<>>,          marks |-> {}, script |-> "cyrillic", code |-> FALSE]]

Words == DOMAIN Vocabulary

\* lines 478-586: the hints that are tokens of the vocabulary
LANGUAGE_HINTS ==
    [en |-> {"the"}, es |-> {"el", "de", "aumento"}, fr |-> {"de"}, de |-> {"und"},
     it |-> {"e", "aumento"}, pt |-> {"e", "de", "aumento"}]

\* lines 588-598
LanguageDiacritics(lang, text) ==
    IF lang = "en" THEN \E i \in 1..Len(text) : Vocabulary[text[i]].ascii
    ELSE \E i \in 1..Len(text) : lang \in Vocabulary[text[i]].marks

\* lines 600-610
RECURSIVE tokenizeLatin(_)
tokenizeLatin(text) ==
    IF text = <<>> THEN <<>>
    ELSE Vocabulary[Head(text)].tokens \o tokenizeLatin(Tail(text))

\* lines 612-624
scoreLanguage(tokens, hints, hasDiacritics) ==
    IF tokens = <<>> THEN (IF hasDiacritics THEN 2 ELSE 0)
    ELSE (IF hasDiacritics THEN 2 ELSE 0)
         + Cardinality({i \in 1..Len(tokens) : tokens[i] \in hints})

\* the score of the language at position i of LatinCodes
ScoreAt(text, i) ==
    scoreLanguage(tokenizeLatin(text), LANGUAGE_HINTS[LatinCodes[i]],
                  LanguageDiacritics(LatinCodes[i], text))

\* lines 626-638: the scores in decreasing order; equal scores keep the order
\* of the keys
getLanguageScores(text) ==
    LET place(i) ==
            1 + Cardinality({j \in 1..Len(LatinCodes) :
                                \/ ScoreAt(text, j) > ScoreAt(text, i)
                                \/ ScoreAt(text, j) = ScoreAt(text, i) /\ j < i})
        at(p) == CHOOSE i \in 1..Len(LatinCodes) : place(i) = p
    IN  [p \in 1..Len(LatinCodes) |->
            [lang |-> LatinCodes[at(p)], score |-> ScoreAt(text, at(p))]]

HasScript(text, script) == \E i \in 1..Len(text) : Vocabulary[text[i]].script = script

\* lines 668-676: the texts that are accepted before any language is looked at
AcceptedOutright(text) ==
    \/ text = <<>>
    \/ \A i \in 1..Len(text) : Vocabulary[text[i]].script = "symbol"
    \/ Len(text) = 1 /\ Vocabulary[text[1]].code
    \/ \A i \in 1..Len(text) : Vocabulary[text[i]].script \in {"symbol", "none"}

\* a heuristic that takes a tie at the top for a strong signal
LikelyTargetLanguageTie(text, lang) ==
    LET targetCode == targetLangToCode(lang)
        scores == getLanguageScores(text)
        best == scores[1]
        second == scores[2]
    IN  IF AcceptedOutright(text) THEN TRUE
        ELSE IF targetCode = "zh" THEN HasScript(text, "cjk")
        ELSE IF targetCode = "ru" THEN HasScript(text, "cyrillic")
        ELSE IF HasScript(text, "cjk") \/ HasScript(text, "cyrillic") THEN FALSE
        ELSE IF best.score = 0 THEN TRUE
        ELSE IF best.lang = targetCode THEN TRUE
        ELSE IF best.score >= 2 /\ best.score >= second.score THEN FALSE
        ELSE TRUE

\* lines 666-704
LikelyTargetLanguage(text, lang) ==
    LET targetCode == targetLangToCode(lang)
        scores == getLanguageScores(text)
        best == scores[1]
        second == scores[2]
    IN  IF AcceptedOutright(text) THEN TRUE
        ELSE IF targetCode = "zh" THEN HasScript(text, "cjk")
        ELSE IF targetCode = "ru" THEN HasScript(text, "cyrillic")
        ELSE IF HasScript(text, "cjk") \/ HasScript(text, "cyrillic") THEN FALSE
        ELSE IF best.score = 0 THEN TRUE
        ELSE IF best.lang = targetCode THEN TRUE
        ELSE IF best.score >= 2 /\ best.score >= second.score + 1 THEN FALSE
        ELSE TRUE

\* the languages the heuristic is asked about
JudgedLangs == {"English", "Spanish", "German", "Russian"}

\* the text, the language and the verdict of the heuristic (history)
NoVerdict == [op |-> "none", text |-> <<>>, verdict |-> FALSE]

InitJudge ==
    \E text \in SeqsUpTo(Words, MaxWords), lang \in JudgedLangs :
        Holds([Constructed(AnyBackend("ENsp")) EXCEPT
                    !.targetLang = lang,
                    !.hist = [NoVerdict EXCEPT !.text = text]])

\* the heuristic is applied to the text
Judge ==
    /\ hist.op = "none"
    /\ hist' = [hist EXCEPT !.op = "judged",
                            !.verdict = LikelyTargetLanguage(hist.text, targetLang)]
    /\ UNCHANGED <<data, targetLang, translationMode, enginePreference, processedData,
                   translatedFlags, missingRowIndices, translationStatus, activeStage,
                   processingState, translationIssues, qualityReport, pauseRequested,
                   store, cache, lastEngine, hub, call, pc, kind, cl, w, backend, guarded,
                   strings>>

SpecJudge == InitJudge /\ [][Judge]_vars

-----------------------------------------------------------------------------
(* The way of one text from the guard to the outputs, with a service that   *)
(* translates the text and echoes every placeholder: the cell of a table    *)
(* (part_008 lines 1019 and 1062-1084), the row written at the export       *)
(* (lines 1634-1636) and the paragraph of a document (lines 536-572).       *)

PolishPieces == {"ZH", "TOK", "TOKd", "CODE"}

RECURSIVE PolishTexts(_)
PolishTexts(n) ==
    IF n = 0 THEN {EmptyText}
    ELSE PolishTexts(n - 1) \cup
         {Append(t, p) : t \in {u \in PolishTexts(n - 1) : Len(u) = n - 1},
                         p \in PolishPieces}

\* the service translates what is left of the text and echoes the placeholders
EchoAnswer(sanitized, style) ==
    [i \in 1..Len(sanitized) |-> IF sanitized[i] \in CjkSegs THEN style ELSE sanitized[i]]

\* lines 536-572: a paragraph is guarded, translated, restored and then polished
docxParagraph(rawText, style) ==
    polishTranslation(rawText,
        restoreInlineTokens(EchoAnswer(guardInlineTokens(rawText).sanitized, style),
                            guardInlineTokens(rawText).placeholders))

\* lines 1019 and 1062-1084: a cell is guarded, translated, polished and then restored
tableCell(value, style) ==
    mergeCell(value, EchoAnswer(guardTranslationTokens(value).sanitized, style))

\* the text and what has become of it (history)
NoOutputs == [op |-> "none", text |-> EmptyText, style |-> "EN",
              persisted |-> EmptyText, exported |-> EmptyText, docx |-> EmptyText]

polishFrame ==
    UNCHANGED <<data, targetLang, translationMode, enginePreference, processedData,
                translatedFlags, missingRowIndices, translationStatus, activeStage,
                processingState, translationIssues, qualityReport, pauseRequested,
                store, cache, lastEngine, hub, call, pc, kind, cl, w, backend, guarded,
                strings>>

InitPolish ==
    \E text \in PolishTexts(MaxLen) \ {EmptyText}, style \in {"EN", "ENsp"} :
        Holds([Constructed(AnyBackend(style)) EXCEPT
                    !.hist = [NoOutputs EXCEPT !.text = text, !.style = style]])

\* the batch loop merges the cell into the record it persists
PersistCell ==
    /\ hist.op = "none"
    /\ hist' = [hist EXCEPT !.op = "persisted",
                            !.persisted = tableCell(hist.text, hist.style)]
    /\ polishFrame

\* handleDownload post-processes the record for the workbook
ExportCell ==
    /\ hist.op = "persisted"
    /\ hist' = [hist EXCEPT !.op = "exported",
                            !.exported = applyPostprocessRow([text |-> hist.text],
                                                             [text |-> hist.persisted],
                                                             targetLang).text]
    /\ polishFrame

\* runDocxTranslation writes the paragraph
WriteParagraph ==
    /\ hist.op = "none"
    /\ hist' = [hist EXCEPT !.op = "docx", !.docx = docxParagraph(hist.text, hist.style)]
    /\ polishFrame

NextPolish == PersistCell \/ ExportCell \/ WriteParagraph

SpecPolish == InitPolish /\ [][NextPolish]_vars

-----------------------------------------------------------------------------
(* runDocxTranslation (part_008 lines 495-596).  In this specification      *)
(* `data` holds the text nodes of the document, which the loop rewrites in  *)
(* place; docxStats and docxIssueIndices are display state that no handler  *)
(* of the specification reads.                                              *)

DOCX_BATCH_SIZE == 20

DocxNode == [content |-> <<"ZH", "TOK">>]

\* documents of one batch, of two, and of three
DocxLengths == {1, DOCX_BATCH_SIZE, DOCX_BATCH_SIZE + 1, 2 * DOCX_BATCH_SIZE + 1}

DocxDocuments == {[j \in 1..n |-> DocxNode] : n \in DocxLengths}

\* lines 506-508: the text nodes that are to be translated
docxCandidates(s) ==
    SortedSeq({j \in 1..Len(s.data) :
                  shouldTranslateValue(s.data[j].content, s.targetLang, s.translationMode)})

docxChunk(s) ==
    SubSeq(s.w.items, s.w.i, Min(s.w.i + DOCX_BATCH_SIZE - 1, Len(s.w.items)))

\* lines 536-551: the payload of the batch
docxRequest(s) ==
    [records |-> [j \in 1..Len(docxChunk(s)) |->
                    [content |-> guardInlineTokens(s.data[docxChunk(s)[j]].content).sanitized]],
     targetLang |-> s.targetLang,
     model |-> s.enginePreference]

\* the hub call raises, or returns one translated record per text node
DocxOutcomes(s) ==
    {[raise |-> TRUE, records |-> <<>>],
     [raise |-> FALSE,
      records |-> FullResponse(docxRequest(s).records, s.targetLang, s.backend.style)]}

\* lines 590-593 and 473-493: the stage has ended; the audit sets display state only
DocxEnd(s) ==
    [s EXCEPT !.processingState.status = "completed",
              !.processingState.progress = 100,
              !.activeStage = "none",
              !.translationStatus = "completed",
              !.pc = "idle"]

\* lines 559-581: the nodes of the batch are rewritten, the progress is published
DocxBatchSuccess(s, translatedBatch) ==
    LET chunk == docxChunk(s)
        at(r) == CHOOSE j \in 1..Len(chunk) : chunk[j] = r
        inBatch(r) == \E j \in 1..Len(chunk) : chunk[j] = r
        rewritten(r) ==
            LET rawText == s.data[r].content
                sanitizedResult ==
                    IF at(r) <= Len(translatedBatch)
                       /\ "content" \in DOMAIN translatedBatch[at(r)]
                       /\ IsString(translatedBatch[at(r)].content)
                    THEN translatedBatch[at(r)].content ELSE rawText
            IN  polishTranslation(rawText,
                    restoreInlineTokens(sanitizedResult,
                                        guardInlineTokens(rawText).placeholders))
        completed == s.w.completed + Len(chunk)
    IN  [s EXCEPT !.data = [r \in 1..Len(s.data) |->
                              IF inBatch(r) THEN [content |-> rewritten(r)] ELSE s.data[r]],
                  !.w.completed = completed,
                  !.processingState.progress = Percent(completed, Len(s.w.items)),
                  !.processingState.currentBatch = ((s.w.i - 1) \div DOCX_BATCH_SIZE) + 1]

\* lines 530-552: the loop header at index i, up to the hub call of the batch;
\* a batch the hub answers from its cache is rewritten at once
RECURSIVE DocxLoopFrom(_, _)
DocxLoopFrom(s, i) ==
    IF i > Len(s.w.items) THEN DocxEnd(s)
    ELSE LET s1 == [s EXCEPT !.w.i = i, !.hist.batches = Min(s.hist.batches + 1, 3)]
             key == CacheKey(docxRequest(s1))
         IN  IF CacheHas(s.cache, key)
             THEN DocxLoopFrom(DocxBatchSuccess(s1, s.cache[key]), i + DOCX_BATCH_SIZE)
             ELSE [s1 EXCEPT !.pc = "docxInflight", !.hist.called = TRUE]

\* lines 495-527 and runStage: runDocxTranslation up to its first wait
StartDocx(s) ==
    IF Len(s.data) = 0 \/ docxCandidates(s) = <<>> THEN s
    ELSE LET s1 == [s EXCEPT !.pauseRequested = FALSE,
                             !.translationStatus = "running",
                             !.processingState = [status |-> "processing", progress |-> 0,
                                                  currentBatch |-> 0]]
         IN  IF s.activeStage # "none"
             THEN [s1 EXCEPT !.translationStatus = "completed"]
             ELSE DocxLoopFrom([s1 EXCEPT !.activeStage = "translate",
                                          !.kind = "docx",
                                          !.w = [i |-> 1, items |-> docxCandidates(s),
                                                 completed |-> 0]],
                               1)

\* lines 552-557 and 559-581: the hub call of the batch settles
DocxReturn(s, out) ==
    IF out.raise THEN DocxLoopFrom(s, s.w.i + DOCX_BATCH_SIZE)
    ELSE LET req == docxRequest(s)
         IN  DocxLoopFrom(
                DocxBatchSuccess([s EXCEPT !.cache = CachePut(s.cache, CacheKey(req), out.records),
                                           !.lastEngine = req.model],
                                 out.records),
                s.w.i + DOCX_BATCH_SIZE)

InitDocx ==
    \E doc \in DocxDocuments :
        Holds([Constructed(AnyBackend("ENsp")) EXCEPT !.data = doc])

\* Run Global Translation on a document
RunDocx ==
    /\ pc = "idle" /\ translationStatus # "running"
    /\ hist.ops < MaxOps
    /\ Apply(StartDocx(Begin(Cur, "other")))

DocxReturnStep ==
    /\ pc = "docxInflight"
    /\ \E out \in DocxOutcomes(Cur) : Apply(DocxReturn(Cur, out))

NextDocx ==
    \/ RunDocx
    \/ Pause
    \/ DocxReturnStep

SpecDocx == InitDocx /\ [][NextDocx]_vars

-----------------------------------------------------------------------------
(* Properties *)

Rows == 1..Len(data)

\* what saveTranslationProgress would write for the locals of the loop
LoopSnapshot ==
    [records |-> w.finalResults, translatedFlags |-> w.flags, missingRows |-> w.missingRows]

\* the batch loop of a run carried on without a pause, up to its end
RECURSIVE RunToEnd(_)
RunToEnd(s) ==
    IF s.pc = "inflight"
    THEN RunToEnd(HubReturn(s, CHOOSE out \in Outcomes(s.backend, batchRequest(s, s.w.i)) : TRUE))
    ELSE IF s.pc = "delay" THEN RunToEnd(DelayDone(s))
    ELSE s

\* one uninterrupted fresh run over the sheet, from the ingestion to the end
\* of the batch loop
UninterruptedRun(b, lang, mode) ==
    RunToEnd(StartRun(Begin(Ingest([Constructed(b) EXCEPT !.targetLang = lang,
                                                          !.translationMode = mode],
                                   Sheet),
                            "fresh"),
                      "fresh"))

\* C1: with a deterministic service, a fresh run that was paused after a
\* batch and then resumed to the end of the batch loop has persisted the same
\* snapshot (records, flags, missing rows) as one uninterrupted run over the
\* same sheet and target language
C1_ResumeSameSnapshot ==
    (hist.scenario = "resumed" /\ pc = "audit")
        => store = UninterruptedRun(backend, targetLang, translationMode).store

\* the flags and the records the run in flight began with
StartFlags == workingFlags([data |-> data, translationMode |-> translationMode,
                            targetLang |-> targetLang,
                            translatedFlags |-> cl.translatedFlags], w.shouldResume)
StartRecords == IF w.shouldResume THEN cl.processedData ELSE data

\* the batch loop has ended after exactly one of its hub calls raised while
\* every other batch came back fully translated
OneBatchFailed ==
    kind = "run" /\ pc = "audit" /\ hist.nFailed = 1 /\ hist.allFull

LockedCellsKept(records) ==
    Len(records) = Len(data) =>
        \A r \in Rows : \A k \in DOMAIN data[r] :
            shouldLockCell(k, data[r][k]) =>
                k \in DOMAIN records[r] /\ records[r][k] = data[r][k]

C4_ResultValid ==
    call.outcome = "returned" =>
        /\ Len(call.value) = Len(call.req.records)
        /\ \A j \in 1..Len(call.value) : IsObject(call.value[j])

\* the snapshot the run would persist on a pause
PausedNow ==
    /\ pc' = "idle"
    /\ translationStatus' = "paused"
    /\ store' = LoopSnapshot

\* C5: once a pause is requested while a batch is in flight, the call
\* completes and no further batch is dispatched, whether the batch succeeded
\* or failed: the run persists its state and returns Paused, without the audit
C5_PauseStopsDispatch ==
    [][(kind = "run" /\ pauseRequested /\ pc \in {"inflight", "delay"}
            /\ hist'.ops = hist.ops)
        => \/ pc = "inflight" /\ pc' = "delay" /\ hist'.batches = hist.batches
           \/ PausedNow]_vars

AllComplete ==
    /\ data # <<>>
    /\ Len(store.translatedFlags) = Len(data)
    /\ \A r \in Rows : store.translatedFlags[r]
    /\ translatedFlags = store.translatedFlags
    /\ processedData = store.records
    /\ missingRowIndices = store.missingRows

\* the handler issues no backend call and leaves the snapshot as it is
NothingDone ==
    /\ store' = store
    /\ ~hist'.called

\* C7 as stated: a Resume or a new Run on a complete snapshot issues no
\* backend call and leaves the snapshot unchanged
C7_RerunIdempotent ==
    [][(AllComplete /\ (Resume \/ RunFresh)) => NothingDone]_vars

\* C7 amended: a Resume on a complete snapshot issues no backend call, leaves
\* the snapshot unchanged and returns at once
C7_ResumeIdempotent ==
    [][(AllComplete /\ Resume) => (NothingDone /\ pc' = "idle")]_vars

\* a Resume on a complete snapshot has returned
C7_Witness ==
    /\ hist.scenario = "resumed" /\ pc = "idle" /\ ~hist.called
    /\ translationStatus = "completed"
    /\ AllComplete

\* C8: within one run of the batch loop the number of rows flagged complete
\* never decreases, and neither does the progress the loop reports
C8_MonotonicCompletion ==
    [][(kind = "run" /\ kind' = "run")
        => /\ CountTrue(w'.flags) >= CountTrue(w.flags)
           /\ hist.reported => processingState'.progress >= processingState.progress]_vars

\* a resumed run has reported progress after two batches
C8_Witness ==
    /\ kind = "run" /\ w.shouldResume
    /\ hist.batches >= 2 /\ hist.reported
    /\ CountTrue(w.flags) > CountTrue(StartFlags)

FlagsKept(old, new) ==
    \A r \in DOMAIN old : old[r] => (r \in DOMAIN new /\ new[r])

\* C9: a completion flag that is true stays true, in the state and in the
\* snapshot, until a fresh run or an ingestion resets it
C9_CompleteIsTerminal ==
    [][RunFresh \/ Upload \/ Reload
       \/ (/\ FlagsKept(translatedFlags, translatedFlags')
           /\ FlagsKept(store.translatedFlags, store.translatedFlags'))]_vars

\* the records the flags speak of
CurrentRecords == IF Len(processedData) = Len(data) THEN processedData ELSE data

\* C10: every row flagged complete has all its translatable cells (strings
\* that are neither locked nor neutral) in the target language and free of
\* placeholders
C10_CompleteRowsClean ==
    \A r \in Rows :
        (Len(translatedFlags) = Len(data) /\ translatedFlags[r]) =>
            \A k \in DOMAIN CurrentRecords[r] :
                LET cell == CurrentRecords[r][k]
                IN  (/\ IsString(cell) /\ cell # EmptyText
                     /\ ~shouldLockCell(k, data[r][k])
                     /\ ~isNeutralToken(cell))
                    => isLikelyTargetLanguage(cell, targetLang) /\ ~hasPlaceholder(cell)

\* C11: no cell of the persisted snapshot holds a placeholder token, whatever
\* the runs, resumes and retries before and whatever the service answered
C11_NoPlaceholderPersisted ==
    \A r \in 1..Len(store.records) : \A k \in DOMAIN store.records[r] :
        IsString(store.records[r][k]) => ~hasPlaceholder(store.records[r][k])

\* C12: the token guard of the translators is a round trip: whatever the text,
\* restoring its sanitized form with its placeholders gives the text back
C12_GuardRoundTrip ==
    (guarded.stage = "restored" /\ guarded.guard = "translation")
        => guarded.restored = guarded.text

\* C13: placeholders of different classes never collide: a string resource
\* comes back from the guard and the restore as it was, with no placeholder
\* left in it, also when it holds format specifiers next to Chinese text or
\* more than ten placeholders of one class
C13_ResourceRoundTrip ==
    (guarded.stage = "restored" /\ guarded.guard = "stringResource")
        => (guarded.restored = guarded.text /\ ~hasPlaceholder(guarded.restored))

\* the backends of a hub in the order of the automatic fallback
AutoOrder ==
    (IF hub.openRouter THEN <<"openrouter">> ELSE <<>>) \o <<"deepseek">>
        \o (IF hub.hasGeminiKey THEN <<"gemini">> ELSE <<>>)

\* place of a backend in the automatic order (0: not in it)
AutoRank(b) ==
    IF \E i \in 1..Len(AutoOrder) : AutoOrder[i] = b
    THEN CHOOSE i \in 1..Len(AutoOrder) : AutoOrder[i] = b ELSE 0

\* the backends called so far by the call, the one in flight included
Attempts == [i \in 1..Len(call.tried) |-> call.tried[i].backend]
                \o (IF call.at = "none" THEN <<>> ELSE <<call.at>>)

AttemptsOf(b) == Cardinality({i \in 1..Len(Attempts) : Attempts[i] = b})

AutoCall == ~hub.proxy /\ call.req.model = "auto"

ValidAnswer(records) ==
    /\ Len(records) = Len(call.req.records)
    /\ \A j \in 1..Len(records) : IsObject(records[j])

\* the calls of an automatic call follow the order, start at its first backend,
\* and move to the next backend only when every attempt of the one before raised
InAutoOrder ==
    /\ \A i \in 1..Len(Attempts) : AutoRank(Attempts[i]) > 0
    /\ Len(Attempts) > 0 => AutoRank(Attempts[1]) = 1
    /\ \A i \in 1..(Len(Attempts) - 1) :
          /\ call.tried[i].raised
          /\ \/ Attempts[i + 1] = Attempts[i]
             \/ /\ AutoRank(Attempts[i + 1]) = AutoRank(Attempts[i]) + 1
                /\ Attempts[i] = "deepseek" =>
                      Cardinality({k \in 1..i : Attempts[k] = "deepseek"}) = DEFAULT_RETRIES + 1

\* the settled call: the first answer is the result, and a call whose backends
\* all raised, or whose answer is not a valid result, is raised
FirstSuccessReturned ==
    (call.at = "none" /\ Len(call.tried) > 0) =>
        LET last == call.tried[Len(call.tried)]
        IN  /\ call.outcome = "returned" <=> (~last.raised /\ ValidAnswer(last.records))
            /\ call.outcome = "returned" => call.value = last.records
            /\ call.outcome # "returned" => call.outcome = "raised"
            /\ last.raised => AutoRank(last.backend) = Len(AutoOrder)

C15_RetryEveryBackend ==
    ~hub.proxy =>
        /\ \A i \in 1..Len(call.tried) :
              (call.tried[i].raised
                 /\ (i = Len(Attempts) \/ Attempts[i + 1] # Attempts[i]))
                  => Cardinality({k \in 1..i : Attempts[k] = Attempts[i]})
                         = DEFAULT_RETRIES + 1
        /\ \A b \in {"openrouter", "deepseek", "gemini"} :
              AttemptsOf(b) <= DEFAULT_RETRIES + 1

NamedCall == call.req.model # "auto" /\ call.calls > 0

C17_NoBackendFailsFast == ~backend.keys => hist.batches <= 1

\* the hub calls that are waiting for their answer
CallsInFlight ==
    (IF pc \in {"inflight", "retryInflight"} THEN 1 ELSE 0) + Cardinality(strings.awaiting)

\* C18: at most one backend call is in flight at any time: no hub call is
\* started while another one is still waiting for its answer
C18_OneCallInFlight == CallsInFlight <= 1

\* the retry loop goes forward: to a later retry batch, or to the next backend
\* of the same batch
RetryAdvances ==
    (pc = "retryInflight" /\ pc' = "retryInflight") =>
        /\ w'.m \in 1..Len(getFallbackPriority(hub))
        /\ \/ w'.i > w.i
           \/ w'.i = w.i /\ w'.m > w.m

\* the audit runs when the batch loop has completed, once, and calls the
\* retry at most once; neither a retry nor the audit leads to another audit
AuditOnce ==
    /\ hist'.audits <= 1 /\ hist'.auditRetries <= hist'.audits
    /\ (pc = "audit" /\ pc' # "audit") => (hist.audits = 0 /\ hist'.audits = 1)
    /\ pc' = "audit" => (hist'.audits = 0 /\ pc \in {"idle", "inflight", "delay", "audit"})
    /\ pc = "retryInflight" => pc' \in {"retryInflight", "idle"}

\* C19: the automatic retry is bounded: every run comes to its end; the audit
\* runs exactly once after the batch loop, it calls the targeted retry at most
\* once, the retry calls the hub at most once per backend and retry batch, and
\* neither of the two starts the other again
C19_BoundedAutoRetry ==
    /\ [][RetryAdvances /\ AuditOnce]_vars
    /\ (pc # "idle") ~> (pc = "idle")

\* a run whose audit has started the retry, which is at its second backend
C19_Witness ==
    /\ hist.audits = 1 /\ hist.auditRetries = 1
    /\ pc = "retryInflight" /\ w.m = 2

\* the rows of the translated records in which runQualityChecks reports a
\* defect of any of its four kinds
DefectRows(original, translated) ==
    LET issues == runQualityChecks(original, translated).issues
    IN  {c[1] : c \in issues.chinese \cup issues.placeholders
                      \cup issues.idMismatch \cup issues.spacing}

\* C20: when the audit after a full run has run, every row of the run's
\* results that has a quality defect (residual source text, a leaked
\* placeholder, locked-value drift or a spacing artifact) is among the rows
\* handed to the one automatic targeted retry
C20_DefectsDriveRetry ==
    [][(pc = "audit" /\ pc' # "audit" /\ translationMode = "full")
            => DefectRows(data, w.finalResults) \subseteq hist'.auditRows]_vars

\* the records on display before a retry batch is merged
PriorRecords == IF Len(processedData) = Len(data) THEN processedData ELSE data

\* the cells the retry in flight is aimed at: the defective columns of its rows
TargetedCells == {c \in (1..Len(data)) \X Keys :
                    \E j \in 1..Len(w.items) :
                        w.items[j].rowIdx = c[1] /\ c[2] \in w.items[j].keys}

\* a step of the retry in flight that publishes records
RetryPublishes ==
    /\ pc = "retryInflight" /\ pc' \in {"retryInflight", "idle"}
    /\ hist'.ops = hist.ops
    /\ processedData' # processedData

\* the request of the retry in flight holds, row by row, defective columns only
RetrySendsDefectiveOnly ==
    pc = "retryInflight" =>
        \A j \in 1..Len(retryRequest(Cur).records) :
            DOMAIN retryRequest(Cur).records[j] \subseteq retryChunk(Cur)[j].keys

FreshRunEnded == pc = "idle" /\ hist.scenario = "fresh" /\ hist.audits = 1

\* the cells of the document that are foreign to the target language and are
\* not locked
ForeignCells ==
    {c \in (1..Len(data)) \X Keys :
        /\ c[2] \in DOMAIN data[c[1]]
        /\ IsString(data[c[1]][c[2]])
        /\ ~shouldLockCell(c[2], data[c[1]][c[2]])
        /\ ~isLikelyTargetLanguage(data[c[1]][c[2]], targetLang)}

Converged ==
    /\ missingRowIndices = {}
    /\ \A r \in 1..Len(data) : translatedFlags[r]
    /\ \A c \in ForeignCells : isLikelyTargetLanguage(processedData[c[1]][c[2]], targetLang)

CallStarts == call'.calls > call.calls

C24_LastEngineNamesProducer ==
    call.outcome = "returned" => lastEngine = call.producer[CacheKey(call.req)]

\* a step of runTranslation('fresh'): its start, before anything is published
FreshStart == hist'.ops > hist.ops /\ hist'.mode = "fresh" /\ ~hist'.reported

\* a step of runTranslation('resume'): its start or one of its continuations,
\* the audit and its retry included
ResumeStep == hist'.mode = "resume" /\ (pc # "idle" \/ hist'.ops > hist.ops)

\* the snapshot extends the progress the resume began with: a row that was
\* complete is complete, with the same record
ExtendsLoaded(snapshot, loaded) ==
    /\ Len(snapshot.records) = Len(loaded.records)
    /\ \A r \in 1..Len(snapshot.records) :
          (Len(loaded.translatedFlags) >= r /\ loaded.translatedFlags[r])
              => /\ Len(snapshot.translatedFlags) >= r /\ snapshot.translatedFlags[r]
                 /\ snapshot.records[r] = loaded.records[r]

\* C25: a fresh run removes the snapshot of its document and target language
\* before it dispatches its first batch; a resume never removes or resets the
\* snapshot, it only overwrites it with state that extends the loaded progress
C25_SnapshotLifecycle ==
    [][/\ FreshStart => store' = NoSnapshot
       /\ ResumeStep =>
            /\ store' # NoSnapshot
            /\ store' # store => ExtendsLoaded(store', hist'.loaded)]_vars

\* the document has been chosen and its stored snapshot loaded; no handler has
\* run since
JustLoaded == data # <<>> /\ hist.scenario = "start" /\ Len(store.records) > 0

\* the resume of the loaded document waits for its first batch
ResumeDispatched ==
    /\ hist.mode = "resume" /\ pc = "inflight"
    /\ hist.batches = 1 /\ ~hist.reported

\* C26: on load, a snapshot of the document's row count is reused as it is;
\* otherwise each row takes the snapshot's record where there is one and the
\* source row otherwise, so that the working records have the document's row
\* count; rows without a snapshot record are flagged incomplete; and a resume
\* begins at the first incomplete row
C26_ResumeProtocol ==
    /\ JustLoaded =>
        /\ Len(processedData) = Len(data)
        /\ Len(translatedFlags) = Len(data)
        /\ Len(store.records) = Len(data) => processedData = store.records
        /\ \A r \in 1..Len(data) :
              /\ r <= Len(store.records) => processedData[r] = store.records[r]
              /\ r > Len(store.records) => (processedData[r] = data[r] /\ ~translatedFlags[r])
    /\ ResumeDispatched =>
        /\ w.i = FirstPending(translatedFlags)
        /\ \A r \in hist.dispatched : r >= w.i
        /\ w.i \in hist.dispatched

\* a snapshot shorter than the document has been loaded and the resume waits
\* for its first batch, which begins after the snapshot's rows
C26_Witness ==
    /\ ResumeDispatched
    /\ Len(store.records) < Len(data)
    /\ w.i = Len(store.records) + 1

\* the (document identity, target language) pairs of the store
StorePairs == (FileIds \ {Null}) \X StoreLangs

\* every pair but the one the last operation named reads as before
OtherPairsKept ==
    \A p \in StorePairs \ {<<hist'.fileId, hist'.lang>>} :
        loadTranslationProgress(store', p[1], p[2]) = loadTranslationProgress(store, p[1], p[2])

\* C27: a save that the storage accepts leaves for its pair exactly the
\* snapshot of its payload, with nothing of the earlier content, and no save
\* changes the snapshot of another pair; a clear of one pair removes that
\* pair's snapshot and no other; a load answers null when nothing is stored
\* for its pair; and two distinct pairs never read one stored snapshot
C27_SnapshotStore ==
    [][/\ (hist'.op = "save" /\ hist'.fileId # Null) =>
            /\ OtherPairsKept
            /\ hist'.accepted =>
                  loadTranslationProgress(store', hist'.fileId, hist'.lang) =
                      [targetLang |-> hist'.lang,
                       records |-> hist'.payload.records,
                       translatedFlags |-> hist'.payload.translatedFlags,
                       missingRows |-> hist'.payload.missingRows]
            /\ ~hist'.accepted =>
                  loadTranslationProgress(store', hist'.fileId, hist'.lang) =
                      loadTranslationProgress(store, hist'.fileId, hist'.lang)
       /\ (hist'.op = "clear" /\ hist'.fileId # Null /\ hist'.lang # NoLang) =>
            /\ OtherPairsKept
            /\ loadTranslationProgress(store', hist'.fileId, hist'.lang) = Null
       /\ (hist'.op = "load" /\ ~hist'.had) => hist'.returned = Null
       /\ \A p \in StorePairs, q \in StorePairs : p # q => getKey(p[1], p[2]) # getKey(q[1], q[2])
      ]_vars

\* a save has replaced a two-row snapshot by a one-row one while the other
\* language of the same document and a document whose name begins with the
\* first one's key keep snapshots of their own
C27_Witness ==
    /\ hist.op = "save" /\ hist.had /\ hist.accepted
    /\ hist.fileId = <<"a">> /\ hist.lang = "English"
    /\ Len(hist.payload.records) = 1
    /\ Len(loadTranslationProgress(store, <<"a">>, "English").records) = 1
    /\ loadTranslationProgress(store, <<"a">>, "Russian") # Null
    /\ Len(loadTranslationProgress(store, <<"a">>, "Russian").records) = 2
    /\ loadTranslationProgress(store, <<"a", "_", "English">>, "Russian") # Null

\* a fresh run in selective mode, from its start to the end of its handler
SelectiveFreshRun == hist.mode = "fresh" /\ translationMode = "selective"

\* the rows all of whose string cells satisfy the target-language heuristic
SatisfiedRows == {r \in 1..Len(data) : ~rowNeedsTranslation(data[r], targetLang)}

\* the rows of the retry request in flight
RetryRows ==
    IF pc = "retryInflight"
    THEN {retryChunk(Cur)[j].rowIdx : j \in 1..Len(retryChunk(Cur))}
    ELSE {}

\* the step that starts the run flags the satisfied rows
SatisfiedRowsFlagged ==
    (hist'.ops > hist.ops /\ SelectiveFreshRun') =>
        \A r \in SatisfiedRows' : translatedFlags'[r]

SatisfiedRowsSkipped ==
    SelectiveFreshRun => (hist.dispatched \cup RetryRows) \cap SatisfiedRows = {}

SatisfiedCellsKept ==
    (SelectiveFreshRun /\ Len(processedData) = Len(data)) =>
        \A r \in hist.dispatched : \A k \in DOMAIN data[r] :
            (IsString(data[r][k]) /\ isLikelyTargetLanguage(data[r][k], targetLang))
                => processedData[r][k] = data[r][k]

CellTotal(totals, category) ==
    CASE category = "chinese" -> totals.chineseCells
      [] category = "placeholders" -> totals.placeholderCells
      [] category = "idMismatch" -> totals.idMismatches
      [] category = "spacing" -> totals.spacingIssues

RowTotal(totals, category) ==
    CASE category = "chinese" -> totals.chineseRows
      [] category = "placeholders" -> totals.placeholderRows
      [] category = "idMismatch" -> totals.idMismatchRows
      [] category = "spacing" -> totals.spacingRows

Findings(category) == qualityReport.issues[category]

\* C29: in a quality report, each category's cell total is the number of its
\* findings and its row total the number of distinct row indexes among them,
\* and every finding carries the row, the column, the value found there, the
\* source value and the category
C29_TotalsMatchFindings ==
    qualityReport.present =>
        \A category \in QualityCategories :
            /\ CellTotal(qualityReport.totals, category) = Len(Findings(category))
            /\ RowTotal(qualityReport.totals, category) =
                   Cardinality({Findings(category)[i].rowIndex :
                                   i \in 1..Len(Findings(category))})
            /\ \A i \in 1..Len(Findings(category)) :
                  LET f == Findings(category)[i]
                  IN  /\ DOMAIN f = {"rowIndex", "columnKey", "value", "original", "type"}
                      /\ f.type = IssueType(category)
                      /\ f.rowIndex \in 0..(Len(processedData) - 1)
                      /\ f.columnKey \in DOMAIN processedData[f.rowIndex + 1]
                      /\ f.value = processedData[f.rowIndex + 1][f.columnKey]
                      /\ f.original =
                            IF /\ f.rowIndex < Len(data)
                               /\ f.columnKey \in DOMAIN data[f.rowIndex + 1]
                               /\ IsString(data[f.rowIndex + 1][f.columnKey])
                            THEN data[f.rowIndex + 1][f.columnKey] ELSE EmptyText

\* a report in which one row has two findings of a category, one cell is
\* found in three categories, and a finding lies beyond the source rows
C29_Witness ==
    /\ qualityReport.present
    /\ qualityReport.totals.chineseCells = 3
    /\ qualityReport.totals.chineseRows = 2
    /\ qualityReport.totals.idMismatches >= 1
    /\ \E i \in 1..Len(Findings("chinese")), j \in 1..Len(Findings("placeholders")) :
          /\ Findings("chinese")[i].rowIndex = Findings("placeholders")[j].rowIndex
          /\ Findings("chinese")[i].columnKey = Findings("placeholders")[j].columnKey
    /\ \E i \in 1..Len(Findings("spacing")) : Findings("spacing")[i].rowIndex >= Len(data)

\* the text of a judged state has neither CJK nor Cyrillic characters and the
\* target language has no script of its own
LatinCase ==
    /\ hist.op = "judged"
    /\ targetLangToCode(targetLang) \notin {"zh", "ru"}
    /\ ~HasScript(hist.text, "cjk") /\ ~HasScript(hist.text, "cyrillic")

TopScore == getLanguageScores(hist.text)[1].score

RunnerUpScore == getLanguageScores(hist.text)[2].score

\* the language at position i scores more than every other language
StrictTop(i) ==
    \A j \in 1..Len(LatinCodes) : j # i => ScoreAt(hist.text, i) > ScoreAt(hist.text, j)

\* C30: for a target language without a script of its own, a text without
\* CJK and Cyrillic characters whose top score is zero or shared with the
\* runner-up is accepted, and such a text is rejected only when a language
\* other than the target scores strictly more than every other language
C30_FailOpen ==
    LatinCase =>
        /\ (TopScore = 0 \/ TopScore = RunnerUpScore) => hist.verdict
        /\ ~hist.verdict =>
              \E i \in 1..Len(LatinCodes) :
                  LatinCodes[i] # targetLangToCode(targetLang) /\ StrictTop(i)

\* a Spanish target and a text in which Italian and Portuguese share the top
\* score, above zero and above the target's: the text is accepted
C30_Witness ==
    /\ LatinCase /\ targetLang = "Spanish"
    /\ TopScore > 0 /\ TopScore = RunnerUpScore
    /\ getLanguageScores(hist.text)[1].lang # "es"
    /\ \E i \in 1..Len(LatinCodes) : LatinCodes[i] = "es" /\ ScoreAt(hist.text, i) < TopScore
    /\ hist.verdict

\* C31: the RecordSet that translateBatch returns for a request was computed
\* from exactly that request's records: a request is never handed the result
\* of a request with another record list, however much the two have in common
C31_ResultOfOwnRecords ==
    call.outcome = "returned" =>
        call.computedFor[CacheKey(call.req)] = call.req.records

\* C32: with no backend preference, a backend's answer of the wrong shape (a
\* number of records other than the request's, or an element that is no
\* object) is that backend's failure: the call is raised on it only when the
\* backend is the last one of the automatic order
C32_WrongShapeFallsThrough ==
    (AutoCall /\ call.outcome = "raised" /\ call.tried # <<>>) =>
        LET last == call.tried[Len(call.tried)]
        IN  (~last.raised /\ ~ValidAnswer(last.records))
                => last.backend = AutoOrder[Len(AutoOrder)]

\* C33: a row that a resumed run or a targeted retry dispatches again is
\* answered by a new backend call: no batch of a resume or of a retry is
\* answered from the hub cache
C33_RedispatchCallsBackend ==
    hist.mode # "fresh" => hist.fromCache = {}

\* the rows listed as missing are rows of the document, and none is flagged complete
MissingRowsConsistent(flags, missingRows) ==
    \A r \in missingRows :
        /\ r \in 1..Len(data)
        /\ r \in DOMAIN flags => ~flags[r]

\* C34: in the orchestrator state and in the persisted snapshot no row is both
\* flagged complete and listed in missingRows, and every index in missingRows
\* is a row index of the current document
C34_FlagsAgreeWithMissing ==
    data # <<>> =>
        /\ MissingRowsConsistent(translatedFlags, missingRowIndices)
        /\ MissingRowsConsistent(store.translatedFlags, store.missingRows)

\* a stage is requested by this step while another stage is active
StageRequestedWhileActive == activeStage # "none" /\ hist'.ops > hist.ops

\* C35: a stage requested while another stage is active is rejected with no
\* effect: the snapshot, the working records, the completion flags and the
\* translation status are as before, no audit is to run and no backend call
\* is issued
C35_RejectedStageHasNoEffect ==
    [][StageRequestedWhileActive =>
          /\ store' = store
          /\ processedData' = processedData
          /\ translatedFlags' = translatedFlags
          /\ translationStatus' = translationStatus
          /\ pc' = "idle"
          /\ ~hist'.called]_vars

\* the tokens that the guard took out of the text stand in the output as they
\* stood in the text
TokensKept(text, sanitized, output) ==
    /\ Len(output) = Len(text)
    /\ \A i \in 1..Len(text) : sanitized[i] # text[i] => output[i] = text[i]

\* C36: when the service echoes the placeholders, every token the guard has
\* protected stands unaltered in the persisted record, in the row written at
\* the Excel export and in the DOCX text
C36_TokensSurvivePolish ==
    /\ hist.op \in {"persisted", "exported"}
          => TokensKept(hist.text, guardTranslationTokens(hist.text).sanitized, hist.persisted)
    /\ hist.op = "exported"
          => TokensKept(hist.text, guardTranslationTokens(hist.text).sanitized, hist.exported)
    /\ hist.op = "docx"
          => TokensKept(hist.text, guardInlineTokens(hist.text).sanitized, hist.docx)

\* the engines of the hub in the order OpenRouter, Deepseek, Gemini
AvailableEngines ==
    SelectSeq(<<"openrouter", "deepseek", "gemini">>, LAMBDA e : Capabilities[e])

\* the rows of the retry batch in flight
RetryBatchRows == {retryChunk(Cur)[j].rowIdx : j \in 1..Len(retryChunk(Cur))}

\* the hub call of the retry batch in flight settles with a result, which the
\* hub stores
RetrySucceeds == pc = "retryInflight" /\ cache' # cache

RetryFails == pc = "retryInflight" /\ cache' = cache

\* the retry goes on with the batch it was at
SameRetryBatch == pc' = "retryInflight" /\ w'.i = w.i

\* the following retry batch is processed: offered to the first engine, or
\* answered by the hub from its cache
NextRetryBatchProcessed ==
    \/ pc' = "retryInflight" /\ w'.i = w.i + RETRY_BATCH_SIZE
            /\ hist'.offered = <<AvailableEngines[1]>>
    \/ \E j \in 1..Len(w.items) :
            j >= w.i + RETRY_BATCH_SIZE /\ w.items[j].rowIdx \in hist'.fromCache

\* the rows of the batch are left as they were, and incomplete
RetryBatchRowsKept ==
    \A r \in RetryBatchRows :
        /\ IF pc' = "idle" THEN processedData'[r] = w.finalResults[r]
           ELSE w'.finalResults[r] = w.finalResults[r]
        /\ ~translatedFlags[r] => ~translatedFlags'[r]

\* C37: a retry batch is offered to the available backends in the order
\* OpenRouter, Deepseek, Gemini (the hub may answer for a backend from its
\* cache) and to none after the first that succeeds;
\* when all of them fail the rows of the batch keep their records and stay
\* incomplete, and the following retry batches are still processed
C37_RetryEngineOrder ==
    [][/\ pc' = "retryInflight" =>
            /\ hist'.offered # <<>>
            /\ hist'.offered = SubSeq(AvailableEngines, 1, Len(hist'.offered))
            /\ retryRequest(Cur)'.model = hist'.offered[Len(hist'.offered)]
       /\ RetrySucceeds => ~SameRetryBatch
       /\ (RetryFails /\ hist.offered # AvailableEngines) =>
            \/ /\ SameRetryBatch
               /\ hist'.offered = SubSeq(AvailableEngines, 1, Len(hist.offered) + 1)
            \/ RetryBatchRows \subseteq hist'.fromCache
       /\ (RetryFails /\ hist.offered = AvailableEngines) =>
            /\ ~SameRetryBatch
            /\ RetryBatchRows \subseteq hist'.retryFailed
            /\ RetryBatchRowsKept
            /\ w.i + RETRY_BATCH_SIZE <= Len(w.items) => NextRetryBatchProcessed]_vars

\* C38: a pause requested while a DOCX batch is in flight takes effect when
\* that batch has settled: no further batch is dispatched and the run is Paused
C38_DocxPauseAtBoundary ==
    [][(pc = "docxInflight" /\ pauseRequested)
            => (pc' = "idle" /\ translationStatus' = "paused"
                /\ hist'.batches = hist.batches)]_vars

\* the step dispatches a batch of the batch loop: a run has begun or the loop
\* has moved to another chunk
RunBatchDispatched ==
    /\ kind' = "run"
    /\ pc' \in {"inflight", "delay"}
    /\ hist'.ops > hist.ops \/ w'.i # w.i

\* the rows the run had dispatched before the step
DispatchedBefore == IF hist'.ops > hist.ops THEN {} ELSE hist.dispatched

\* the rows of the request that is in flight after the step
RequestRows ==
    LET pending == pendingIndices(w'.flags, w'.i, Len(data'))
    IN  {pending[j] : j \in 1..Len(pending)}

\* C39: in one run of the batch loop every backend request carries between 1
\* and BATCH_SIZE rows, all of them rows flagged incomplete at that moment, and
\* no row of the document is dispatched twice
C39_BatchShape ==
    [][RunBatchDispatched =>
        /\ \A r \in DispatchedBefore : r < w'.i
        /\ (hist'.dispatched \ DispatchedBefore) \subseteq w'.i..(w'.i + BATCH_SIZE - 1)
        /\ pc' = "inflight" =>
            /\ Len(batchRequest([data |-> data', targetLang |-> targetLang',
                                 translationMode |-> translationMode',
                                 enginePreference |-> enginePreference', w |-> w'],
                                w'.i).records) \in 1..BATCH_SIZE
            /\ Len(batchRequest([data |-> data', targetLang |-> targetLang',
                                 translationMode |-> translationMode',
                                 enginePreference |-> enginePreference', w |-> w'],
                                w'.i).records) = Cardinality(RequestRows)
            /\ RequestRows \subseteq 1..Len(data')
            /\ \A r \in RequestRows : ~translatedFlags'[r]
            /\ RequestRows \cap DispatchedBefore = {}
            /\ hist'.dispatched = DispatchedBefore \cup RequestRows]_vars

\* a run is past its first batch and its second request is in flight
C39_Witness ==
    /\ pc = "inflight"
    /\ kind = "run"
    /\ w.i = BATCH_SIZE + 1
    /\ hist.dispatched = 1..NumRows
    /\ ~translatedFlags[NumRows]

TypeOK ==
    /\ pc \in {"idle", "inflight", "delay", "audit", "retryInflight"}
    /\ translationStatus \in {"idle", "running", "paused", "completed"}
    /\ hist.ops \in 0..MaxOps

====
